---- MODULE Spec2Model ----
(***************************************************************************)
(* A model of the hybrid movie recommender (src/src/recommender.py), its   *)
(* content model (src/src/nlp_recommender.py) and the rating store         *)
(* (src/src/database.py).                                                  *)
(*                                                                         *)
(* Real numbers (numpy float64) are modelled in fixed point: a similarity  *)
(* or a normalised rating r is the integer Scale * r, truncated.           *)
(* Python dicts are sequences of <<key, value>> pairs in insertion order,  *)
(* Python lists and pandas rows are sequences.  np.argsort leaves the      *)
(* order of equal elements unspecified: every order is a possible step.    *)
(*                                                                         *)
(* Three specifications share the variables:                               *)
(*   Spec       a rating snapshot is assembled, a MovieRecommender is      *)
(*              built from it and serves one get_recommendations call;     *)
(*   SpecConc   one built MovieRecommender serves two get_recommendations  *)
(*              calls whose steps interleave;                              *)
(*   SpecStore  add_rating and get_all_ratings on table user_ratings.      *)
(***************************************************************************)
EXTENDS Integers, Sequences, FiniteSets, TLC

(***************************************************************************)
(* Bounds of the model.                                                    *)
(***************************************************************************)
NumMovies == 4
NumUsers == 2
MaxRecords == 4
MaxN == 2
MaxMeta == 3
MaxWrites == 4
NumStoreMovies == 2
MaxCorpus == 3
MaxFits == 2
MaxK == 2
MaxSubmits == 2

\* user ids (TEXT in the store), in the sorted order pandas gives the index
UserOrder == <<"u1", "u2", "u3">>
\* the rating values the inputs are drawn from (a subset of 1..5)
RatingValues == {2, 5}

(***************************************************************************)
(* Program constants.                                                      *)
(***************************************************************************)
MIN_RATINGS_REQUIRED == 3
MIN_RATING_THRESHOLD == 4
USER_WEIGHT == 4
ITEM_WEIGHT == 3
CONTENT_WEIGHT == 3
\* the slices [1:6] of the collaborative strategies
TopK == 5
\* the default n_recommendations=5 of get_similar_movies
N_SIMILAR_DEFAULT == 5
\* get_filtered_popular_movies: max_pages, and the 8 movies it collects
max_pages == 50
POPULAR_SHOWN == 8
RATING_MIN == 1
RATING_MAX == 5
\* fixed-point unit of similarities and normalised ratings
Scale == 1000

\* the users of the enumerated snapshots and of the store
Users == {UserOrder[i] : i \in 1..NumUsers}
Movies == 1..NumMovies

(***************************************************************************)
(* Arithmetic helpers.                                                     *)
(***************************************************************************)
Abs(x) == IF x < 0 THEN -x ELSE x

Sign(x) == IF x < 0 THEN -1 ELSE IF x > 0 THEN 1 ELSE 0

Min(a, b) == IF a < b THEN a ELSE b

RECURSIVE ISqrtIn(_, _, _)
ISqrtIn(x, lo, hi) ==
    IF lo >= hi THEN lo
    ELSE LET mid == (lo + hi + 1) \div 2
         IN IF mid * mid <= x THEN ISqrtIn(x, mid, hi) ELSE ISqrtIn(x, lo, mid - 1)

\* floor of the square root, 0 <= x < 2^31
ISqrt(x) == ISqrtIn(x, 0, 46340)

RECURSIVE SumSeq(_)
SumSeq(s) == IF s = <<>> THEN 0 ELSE Head(s) + SumSeq(Tail(s))

Dot(a, b) == SumSeq([j \in 1..Len(a) |-> a[j] * b[j]])

\* the list slice s[:n], n >= 0
Take(s, n) == SubSeq(s, 1, Min(n, Len(s)))

\* the list slice s[1:k+1]
Slice1(s, k) == SubSeq(s, 2, Min(k + 1, Len(s)))

SeqToSet(s) == {s[i] : i \in 1..Len(s)}

\* position of the first occurrence of x in s (x is in s)
IndexOf(s, x) == CHOOSE i \in 1..Len(s) : s[i] = x /\ \A j \in 1..(i - 1) : s[j] # x

(***************************************************************************)
(* numpy: np.argsort(v)[::-1].  argsort leaves the order of equal elements *)
(* unspecified, so every permutation that lists v in descending order is a *)
(* possible outcome.                                                       *)
(***************************************************************************)
RECURSIVE DescOrdersOf(_, _)
DescOrdersOf(v, S) ==
    IF S = {} THEN {<<>>}
    ELSE LET top == {i \in S : \A j \in S : v[i] >= v[j]}
         IN UNION {{<<i>> \o rest : rest \in DescOrdersOf(v, S \ {i})} : i \in top}

ArgsortDesc(v) == DescOrdersOf(v, 1..Len(v))

\* the sequence f[1], ..., f[n], each element computed once
RECURSIVE Tabulate(_, _)
Tabulate(f, n) == IF n = 0 THEN <<>> ELSE Append(Tabulate(f, n - 1), f[n])

(***************************************************************************)
(* sklearn: cosine_similarity of two rows, 0 when either has zero norm.    *)
(* cos^2 = (a.b / a.a) * (a.b / b.b); each ratio is taken in units of      *)
(* 1/Scale, so the result is symmetric and exactly Scale for a = b.        *)
(***************************************************************************)
\* a similarity without the division by the norms
DotOfRows(a, b) == Dot(a, b)

CosineOfRows(a, b) ==
    LET ab == Dot(a, b)
        aa == Dot(a, a)
        bb == Dot(b, b)
    IN IF aa = 0 \/ bb = 0 \/ ab = 0 THEN 0
       ELSE LET r1 == (Abs(ab) * 100) \div (IF aa >= 10 THEN aa \div 10 ELSE 1)
                r2 == (Abs(ab) * 100) \div (IF bb >= 10 THEN bb \div 10 ELSE 1)
            IN Sign(ab) * Min(ISqrt(r1 * r2), Scale)

cosine_similarity(X) ==
    [i \in 1..Len(X) |-> [k \in 1..Len(X) |-> CosineOfRows(X[i], X[k])]]

Transpose(X, ncols) ==
    [j \in 1..ncols |-> [i \in 1..Len(X) |-> X[i][j]]]

(***************************************************************************)
(* pandas: the frame of rating records and its pivot.                      *)
(***************************************************************************)
MovieOrder == [i \in 1..NumMovies |-> i]

UserRank(u) == IndexOf(UserOrder, u)

Record(u, m, r) == [user_id |-> u, movie_id |-> m, rating |-> r]

\* None for a frame and for a numpy array
NoneFrame == [none |-> TRUE, index |-> <<>>, columns |-> <<>>, values |-> <<>>]

NoneArray == [none |-> TRUE, values |-> <<>>]

\* df[df['user_id'] == user_id]
RowsOf(df, u) == SelectSeq(df, LAMBDA rec : rec.user_id = u)

\* df[...]['movie_id'].tolist()
MovieIdsOf(rows) == [i \in 1..Len(rows) |-> rows[i].movie_id]

HasDuplicates(df) ==
    \E i, j \in 1..Len(df) :
        i < j /\ df[i].user_id = df[j].user_id /\ df[i].movie_id = df[j].movie_id

\* DataFrame.pivot(index='user_id', columns='movie_id', values='rating')
\* .fillna(0): sorted labels, one cell per record, 0 where there is none.
\* (pivot raises ValueError on a repeated (user_id, movie_id): PivotRaises.)
PivotRaises(df) == HasDuplicates(df)

PivotFillna(df) ==
    LET index == SelectSeq(UserOrder, LAMBDA u : \E i \in 1..Len(df) : df[i].user_id = u)
        columns == SelectSeq(MovieOrder, LAMBDA m : \E i \in 1..Len(df) : df[i].movie_id = m)
        Cell(u, m) ==
            IF \E i \in 1..Len(df) : df[i].user_id = u /\ df[i].movie_id = m
            THEN df[CHOOSE i \in 1..Len(df) : df[i].user_id = u /\ df[i].movie_id = m].rating
            ELSE 0
    IN [none |-> FALSE, index |-> index, columns |-> columns,
        values |-> [i \in 1..Len(index) |-> [j \in 1..Len(columns) |->
                        Cell(index[i], columns[j])]]]

\* (matrix - matrix.mean()) / matrix.std(), then .fillna(0): the z-score of
\* each movie column with the sample standard deviation (ddof = 1).  With n
\* rows, column sum S and d_i = n*x_i - S, the z-score of x_i is
\* d_i * sqrt((n-1) / sum_k d_k^2); it is NaN, hence 0 after fillna, when
\* n = 1 or the column is constant.
ZScoreFillna(frame) ==
    LET X == frame.values
        n == Len(X)
        ncols == Len(frame.columns)
        S(j) == SumSeq([i \in 1..n |-> X[i][j]])
        D(i, j) == n * X[i][j] - S(j)
        Q(j) == SumSeq([i \in 1..n |-> D(i, j) * D(i, j)])
        Z(i, j) ==
            IF n < 2 \/ Q(j) = 0 THEN 0
            ELSE Sign(D(i, j)) *
                 ISqrt((D(i, j) * D(i, j) * (n - 1) * Scale * Scale) \div Q(j))
    IN [none |-> FALSE, index |-> frame.index, columns |-> frame.columns,
        values |-> [i \in 1..n |-> [j \in 1..ncols |-> Z(i, j)]]]

(***************************************************************************)
(* MovieRecommender._prepare_data: the attributes it leaves behind.        *)
(***************************************************************************)
Unprepared ==
    [user_movie_matrix |-> NoneFrame, normalized_matrix |-> NoneFrame,
     user_similarity_matrix |-> NoneArray, item_similarity_matrix |-> NoneArray]

PrepareData(df) ==
    IF df = <<>> THEN Unprepared
    ELSE IF PivotRaises(df) THEN Unprepared
    ELSE LET umm == PivotFillna(df)
             nm == ZScoreFillna(umm)
         IN [user_movie_matrix |-> umm,
             normalized_matrix |-> nm,
             user_similarity_matrix |->
                 [none |-> FALSE, values |-> cosine_similarity(nm.values)],
             item_similarity_matrix |->
                 [none |-> FALSE,
                  values |-> cosine_similarity(Transpose(nm.values, Len(nm.columns)))]]

(***************************************************************************)
(* Python dict (insertion ordered) and sorted(...).                        *)
(***************************************************************************)
DictKeys(d) == [i \in 1..Len(d) |-> d[i][1]]

DictHas(d, k) == \E i \in 1..Len(d) : d[i][1] = k

DictGet(d, k) == d[CHOOSE i \in 1..Len(d) : d[i][1] = k][2]

\* d[k] = v
DictSet(d, k, v) ==
    IF DictHas(d, k) THEN [i \in 1..Len(d) |-> IF d[i][1] = k THEN <<k, v>> ELSE d[i]]
    ELSE Append(d, <<k, v>>)

\* if k not in d: d[k] = v  else: d[k] += v
DictAdd(d, k, v) == DictSet(d, k, IF DictHas(d, k) THEN DictGet(d, k) + v ELSE v)

\* an update that sums where the code takes the maximum
DictSummed(d, k, v) == DictAdd(d, k, v)

\* if k not in d: d[k] = v  else: d[k] = max(d[k], v)
DictMax(d, k, v) ==
    DictSet(d, k, IF DictHas(d, k) /\ DictGet(d, k) > v THEN DictGet(d, k) ELSE v)

\* sorted(d.items(), key=lambda x: x[1], reverse=True): Python's sort is
\* stable, also with reverse=True: items of equal value keep their order.
RECURSIVE SortedByValueDesc(_)
SortedByValueDesc(d) ==
    IF d = <<>> THEN <<>>
    ELSE LET i == CHOOSE i \in 1..Len(d) :
                      /\ \A j \in 1..Len(d) : d[i][2] >= d[j][2]
                      /\ \A j \in 1..(i - 1) : d[j][2] < d[i][2]
         IN <<d[i]>> \o SortedByValueDesc(SubSeq(d, 1, i - 1) \o SubSeq(d, i + 1, Len(d)))

(***************************************************************************)
(* NLPRecommender: TF-IDF over the overviews and content similarity.       *)
(* An overview is the sequence of its words; <<>> is the empty string.     *)
(***************************************************************************)
StopWords == {"the"}

\* every feature (single word or two-word phrase) the overviews can yield
FeatureOrder == << <<"x">>, <<"y">>, <<"x", "y">>, <<"y", "x">> >>

\* natural logarithm of 1..8 in units of 1/Scale
LnTable == <<0, 693, 1099, 1386, 1609, 1792, 1946, 2079>>

NoneList == [none |-> TRUE, values |-> <<>>]

Some(v) == [none |-> FALSE, values |-> v]

NLPInit ==
    [movie_tfidf_matrix |-> NoneList, movie_ids |-> NoneList,
     movie_descriptions |-> NoneList]

\* stop-word removal, then the count of feature f (ngram_range=(1, 2))
TermCount(ov, f) ==
    LET toks == SelectSeq(ov, LAMBDA w : w \notin StopWords)
    IN Cardinality({i \in 1..(Len(toks) - Len(f) + 1) : SubSeq(toks, i, i + Len(f) - 1) = f})

\* TfidfVectorizer.fit_transform: idf = ln((1 + n) / (1 + df)) + 1, rows
\* scaled to unit length; features no document holds are no columns (their
\* weight is 0 here).  Raises ValueError on an empty vocabulary.
TfidfRaises(descriptions) ==
    \A i \in 1..Len(descriptions) : \A k \in 1..Len(FeatureOrder) :
        TermCount(descriptions[i], FeatureOrder[k]) = 0

TfidfFitTransform(descriptions) ==
    LET n == Len(descriptions)
        nf == Len(FeatureOrder)
        tf == Tabulate([i \in 1..n |->
                  Tabulate([k \in 1..nf |-> TermCount(descriptions[i], FeatureOrder[k])], nf)], n)
        idf == Tabulate([k \in 1..nf |->
                   LnTable[1 + n] - LnTable[1 + Cardinality({i \in 1..n : tf[i][k] > 0})]
                   + Scale], nf)
        raw == Tabulate([i \in 1..n |-> Tabulate([k \in 1..nf |-> tf[i][k] * idf[k]], nf)], n)
        norm == Tabulate([i \in 1..n |-> ISqrt(Dot(raw[i], raw[i]))], n)
    IN [i \in 1..n |-> [k \in 1..nf |->
            IF norm[i] = 0 THEN 0 ELSE (raw[i][k] * Scale) \div norm[i]]]

\* NLPRecommender.fit, lines 29-31: the (id, overview) pairs with an overview
ValidMovies(movie_data) == SelectSeq(movie_data, LAMBDA movie : movie.overview # <<>>)

\* NLPRecommender.fit, line 37: zip(*valid_movies)
FitAssign(nlp, valid) ==
    [nlp EXCEPT !.movie_ids = Some([i \in 1..Len(valid) |-> valid[i].id]),
                !.movie_descriptions = Some([i \in 1..Len(valid) |-> valid[i].overview])]

\* NLPRecommender.fit, lines 40-47: fit_transform of self.movie_descriptions;
\* an exception (None to vectorize, an empty vocabulary) resets the model
FitTransform(nlp) ==
    IF nlp.movie_descriptions.none \/ TfidfRaises(nlp.movie_descriptions.values)
    THEN NLPInit
    ELSE [nlp EXCEPT !.movie_tfidf_matrix =
                         Some(TfidfFitTransform(nlp.movie_descriptions.values))]

\* NLPRecommender.fit run without interruption
Fit(nlp, movie_data) ==
    IF ValidMovies(movie_data) = <<>> THEN nlp
    ELSE FitTransform(FitAssign(nlp, ValidMovies(movie_data)))

\* NLPRecommender.get_similar_movies: the lists it can return (one per order
\* argsort may give to equal similarities); any exception gives [].
GetSimilarMovies(nlp, movie_id, n_recommendations) ==
    IF nlp.movie_tfidf_matrix.none THEN {<<>>}
    ELSE IF nlp.movie_ids.none THEN {<<>>}
    ELSE IF movie_id \notin SeqToSet(nlp.movie_ids.values) THEN {<<>>}
    ELSE LET ids == nlp.movie_ids.values
             M == nlp.movie_tfidf_matrix.values
             movie_idx == IndexOf(ids, movie_id)
         IN IF movie_idx > Len(M) THEN {<<>>}
            ELSE LET similarity_scores ==
                         Tabulate([k \in 1..Len(M) |-> CosineOfRows(M[movie_idx], M[k])], Len(M))
                     Ids(similar_indices) ==
                         IF \E i \in 1..Len(similar_indices) : similar_indices[i] > Len(ids)
                         THEN <<>>
                         ELSE [i \in 1..Len(similar_indices) |-> ids[similar_indices[i]]]
                 IN {Ids(Slice1(p, n_recommendations)) : p \in ArgsortDesc(similarity_scores)}

(***************************************************************************)
(* State.                                                                  *)
(***************************************************************************)
VARIABLES
    ratings_data,            \* the rating snapshot the caller hands to __init__
    phase,                   \* "load": not constructed yet, "ready": constructed
    ratings_df,              \* MovieRecommender attributes
    user_movie_matrix,
    normalized_matrix,
    user_similarity_matrix,
    item_similarity_matrix,
    nlp_recommender,         \* the NLPRecommender's attributes
    pc,                      \* per request thread: where it is in get_recommendations
    req,                     \* per request thread: user_id, n_recommendations, movie_data
    valid_movies,            \* per request thread: local of NLPRecommender.fit
    user_scores,    \* per request thread: the dict each strategy builds
    item_scores,
    content_scores,
    user_based_recs,         \* per request thread: locals of get_recommendations
    item_based_recs,
    content_based_recs,
    combined_recs,
    result,                  \* per request thread: the returned (list, message)
    raised,                  \* per request thread: the strategies whose except clause ran
    user_ratings,            \* the rows of table user_ratings, in heap order
    next_id,                 \* the SERIAL sequence of user_ratings.id
    committed,               \* history: per pair, the ratings add_rating committed, in order
    fit_pc,                  \* a direct NLPRecommender.fit call: where it is
    fit_movie_data,          \* its argument movie_data (of the latest call)
    fit_valid_movies,        \* its local valid_movies
    fit_calls,               \* history: the number of fit calls begun
    fit_prior,               \* history: the attributes as the latest fit call found them
    similar_query,           \* the get_similar_movies call: its arguments and what it returned
    rated_popular_movies,    \* st.session_state: the movies rated from the popular section
    rated_recommendation_movies, \* st.session_state: those rated from the recommendations
    popular_pc,              \* get_filtered_popular_movies: where the call is
    selected_genres,         \* its arguments
    year_range,
    exclude_movies,
    page,                    \* its locals
    filtered_movies,
    fetched_pages,           \* history: the pages it asked for, and whether each had 'results'
    popular_returned         \* the list it returned

engine_vars ==
    <<ratings_df, user_movie_matrix, normalized_matrix, user_similarity_matrix,
      item_similarity_matrix>>

request_vars ==
    <<pc, req, valid_movies, user_scores, item_scores,
      content_scores, user_based_recs, item_based_recs, content_based_recs,
      combined_recs, result, raised>>

store_vars == <<user_ratings, next_id, committed>>

content_vars ==
    <<fit_pc, fit_movie_data, fit_valid_movies, fit_calls, fit_prior, similar_query>>

popular_vars ==
    <<rated_popular_movies, rated_recommendation_movies, popular_pc, selected_genres,
      year_range, exclude_movies, page, filtered_movies, fetched_pages, popular_returned>>

vars ==
    <<ratings_data, phase, engine_vars, nlp_recommender, request_vars, store_vars,
      content_vars, popular_vars>>

Threads == {1, 2}

NoRequest == [user_id |-> "", n |-> 0, movie_data |-> <<>>]

NoResult == [recommendations |-> <<>>, status |-> ""]

NoQuery == [movie_id |-> 0, n_recommendations |-> 0, returned |-> <<>>]

(***************************************************************************)
(* The three strategies.  Each gives the set of lists it can return: one   *)
(* per order argsort may give to equal similarities.                       *)
(***************************************************************************)
\* lines 75-80: the ratings of one similar user, weighted by the similarity
RECURSIVE AccumulateRatings(_, _, _, _)
AccumulateRatings(recommendations, rows, weight, rated_movies) ==
    IF rows = <<>> THEN recommendations
    ELSE LET rating == Head(rows)
         IN AccumulateRatings(
                IF rating.movie_id \in rated_movies THEN recommendations
                ELSE DictAdd(recommendations, rating.movie_id, rating.rating * weight),
                Tail(rows), weight, rated_movies)

\* lines 71-80
RECURSIVE AccumulateUsers(_, _, _, _)
AccumulateUsers(recommendations, similar_users, user_similarities, rated_movies) ==
    IF similar_users = <<>> THEN recommendations
    ELSE LET similar_user_idx == Head(similar_users)
             similar_user_id == user_movie_matrix.index[similar_user_idx]
         IN AccumulateUsers(
                AccumulateRatings(recommendations, RowsOf(ratings_df, similar_user_id),
                                  user_similarities[similar_user_idx], rated_movies),
                Tail(similar_users), user_similarities, rated_movies)

\* line 66: the index lists similar_users can be
SimilarUsers(user_id) ==
    LET user_idx == IndexOf(user_movie_matrix.index, user_id)
    IN {Slice1(p, TopK) : p \in ArgsortDesc(user_similarity_matrix.values[user_idx])}

\* the scores of the strategy before the final sort and cut (lines 64-80)
UserBasedScores(user_id) ==
    LET user_idx == IndexOf(user_movie_matrix.index, user_id)
        user_similarities == user_similarity_matrix.values[user_idx]
        rated_movies == SeqToSet(MovieIdsOf(RowsOf(ratings_df, user_id)))
    IN {AccumulateUsers(<<>>, similar_users, user_similarities, rated_movies) :
            similar_users \in SimilarUsers(user_id)}

\* line 82 (and 105, 128): sorted(...)[:n_recommendations]
TopOfStrategy(recommendations, n_recommendations) ==
    Take(SortedByValueDesc(recommendations), n_recommendations)

GetUserBasedRecommendations(user_id, n_recommendations) ==
    {TopOfStrategy(d, n_recommendations) : d \in UserBasedScores(user_id)}

\* lines 96-103: the similar items of one rated movie
RECURSIVE AccumulateItems(_, _, _, _, _)
AccumulateItems(recommendations, similar_items, movie_idx, rating, rated_movies) ==
    IF similar_items = <<>> THEN recommendations
    ELSE LET similar_item_idx == Head(similar_items)
             similar_movie_id == user_movie_matrix.columns[similar_item_idx]
             similarity_score == item_similarity_matrix.values[movie_idx][similar_item_idx]
         IN AccumulateItems(
                IF similar_movie_id \in rated_movies THEN recommendations
                ELSE DictAdd(recommendations, similar_movie_id, rating * similarity_score),
                Tail(similar_items), movie_idx, rating, rated_movies)

\* lines 93-94: the index lists similar_items can be for one rated movie
SimilarItems(movie_id) ==
    LET movie_idx == IndexOf(user_movie_matrix.columns, movie_id)
    IN {Slice1(p, TopK) : p \in ArgsortDesc(item_similarity_matrix.values[movie_idx])}

\* lines 92-103: one pass of the loop over the user's ratings, for every
\* dict the earlier passes can have built
RECURSIVE ItemBasedLoop(_, _, _)
ItemBasedLoop(dicts, rows, rated_movies) ==
    IF rows = <<>> THEN dicts
    ELSE LET rating == Head(rows)
             movie_idx == IndexOf(user_movie_matrix.columns, rating.movie_id)
         IN ItemBasedLoop(
                {AccumulateItems(d, similar_items, movie_idx, rating.rating, rated_movies) :
                     d \in dicts, similar_items \in SimilarItems(rating.movie_id)},
                Tail(rows), rated_movies)

ItemBasedScores(user_id) ==
    LET user_rows == RowsOf(ratings_df, user_id)
    IN ItemBasedLoop({<<>>}, user_rows, SeqToSet(MovieIdsOf(user_rows)))

GetItemBasedRecommendations(user_id, n_recommendations) ==
    {TopOfStrategy(d, n_recommendations) : d \in ItemBasedScores(user_id)}

\* lines 122-126
RECURSIVE AccumulateSimilar(_, _, _)
AccumulateSimilar(content_recommendations, similar_movies, rating) ==
    IF similar_movies = <<>> THEN content_recommendations
    ELSE AccumulateSimilar(DictMax(content_recommendations, Head(similar_movies), rating),
                           Tail(similar_movies), rating)

\* lines 120-126
RECURSIVE ContentBasedLoop(_, _, _)
ContentBasedLoop(dicts, rows, nlp) ==
    IF rows = <<>> THEN dicts
    ELSE LET row == Head(rows)
         IN ContentBasedLoop(
                {AccumulateSimilar(d, similar_movies, row.rating) :
                     d \in dicts, similar_movies \in GetSimilarMovies(nlp, row.movie_id,
                                                            N_SIMILAR_DEFAULT)},
                Tail(rows), nlp)

ContentBasedScores(user_rows, nlp) ==
    ContentBasedLoop({<<>>},
                     SelectSeq(user_rows, LAMBDA row : row.rating >= MIN_RATING_THRESHOLD),
                     nlp)

GetContentBasedRecommendations(user_rows, n_recommendations, nlp) ==
    {TopOfStrategy(d, n_recommendations) : d \in ContentBasedScores(user_rows, nlp)}

(***************************************************************************)
(* get_recommendations, lines 160-190: merge and rank.  A combined score   *)
(* is in units of 1 / (10 * Scale): the weights are 4, 3, 3 for 0.4, 0.3,  *)
(* 0.3; a content score is a rating, the others are rating * similarity.   *)
(***************************************************************************)
RECURSIVE MergeInto(_, _, _)
MergeInto(combined, recs, weight) ==
    IF recs = <<>> THEN combined
    ELSE MergeInto(DictAdd(combined, Head(recs)[1], Head(recs)[2] * weight),
                   Tail(recs), weight)

\* a merge with the three strategies weighted alike
CombineUnweighted(user_recs, item_recs, content_recs) ==
    MergeInto(MergeInto(MergeInto(<<>>, user_recs, 1), item_recs, 1), content_recs, Scale)

CombineRecs(user_recs, item_recs, content_recs) ==
    MergeInto(MergeInto(MergeInto(<<>>, user_recs, USER_WEIGHT), item_recs, ITEM_WEIGHT),
              content_recs, CONTENT_WEIGHT * Scale)

\* the ranked candidates without the cut [:n_recommendations]
AllRanked(combined, n_recommendations) == DictKeys(SortedByValueDesc(combined))

\* lines 183-184
FinalRecommendations(combined, n_recommendations) ==
    Take(DictKeys(SortedByValueDesc(combined)), n_recommendations)

\* lines 186-190
FinalResult(recommendations) ==
    IF recommendations = <<>>
    THEN [recommendations |-> <<>>, status |-> "no_recommendations"]
    ELSE [recommendations |-> recommendations, status |-> "success"]

\* the checks with a minimum one rating too high
EligibilityOverMinimum(user_id) ==
    IF user_movie_matrix.none \/ user_similarity_matrix.none THEN "uninitialized"
    ELSE IF user_id \notin SeqToSet(user_movie_matrix.index) THEN "user_not_found"
    ELSE IF Len(RowsOf(ratings_df, user_id)) <= MIN_RATINGS_REQUIRED
         THEN "insufficient_ratings"
    ELSE "eligible"

\* the checks without the one of lines 136-138
EligibilityUnguarded(user_id) ==
    IF user_id \notin SeqToSet(user_movie_matrix.index) THEN "user_not_found"
    ELSE IF Len(RowsOf(ratings_df, user_id)) < MIN_RATINGS_REQUIRED THEN "insufficient_ratings"
    ELSE "eligible"

\* the checks without the one of lines 147-149
EligibilityUncounted(user_id) ==
    IF user_movie_matrix.none \/ user_similarity_matrix.none THEN "uninitialized"
    ELSE IF user_id \notin SeqToSet(user_movie_matrix.index) THEN "user_not_found"
    ELSE "eligible"

\* lines 136-149: the early return, or "eligible"
Eligibility(user_id) ==
    IF user_movie_matrix.none \/ user_similarity_matrix.none THEN "uninitialized"
    ELSE IF user_id \notin SeqToSet(user_movie_matrix.index) THEN "user_not_found"
    ELSE IF Len(RowsOf(ratings_df, user_id)) < MIN_RATINGS_REQUIRED THEN "insufficient_ratings"
    ELSE "eligible"

(***************************************************************************)
(* Inputs.                                                                 *)
(***************************************************************************)
\* position of a record in the (user_id, movie_id) order the snapshots are
\* enumerated in
RecordKey(rec) == UserRank(rec.user_id) * (NumMovies + 1) + rec.movie_id

\* the overviews the metadata of a recommendation request is drawn from
RequestOverviews == {<<"x">>, <<"x", "y">>}

Movie(id, overview) == [id |-> id, overview |-> overview]

\* metadata snapshots: up to MaxMeta movies of consecutive ids, by ascending id
MetaChoices ==
    UNION {{md \in [1..k -> {Movie(m, ov) : m \in Movies, ov \in RequestOverviews}] :
               \A i \in 1..(k - 1) : md[i].id + 1 = md[i + 1].id} : k \in 0..MaxMeta}

(***************************************************************************)
(* Initial state: nothing constructed, an empty store.                     *)
(***************************************************************************)
Init ==
    /\ ratings_data = <<>>
    /\ phase = "load"
    /\ ratings_df = <<>>
    /\ user_movie_matrix = NoneFrame
    /\ normalized_matrix = NoneFrame
    /\ user_similarity_matrix = NoneArray
    /\ item_similarity_matrix = NoneArray
    /\ nlp_recommender = NLPInit
    /\ pc = [t \in Threads |-> "idle"]
    /\ req = [t \in Threads |-> NoRequest]
    /\ valid_movies = [t \in Threads |-> <<>>]
    /\ user_scores = [t \in Threads |-> <<>>]
    /\ item_scores = [t \in Threads |-> <<>>]
    /\ content_scores = [t \in Threads |-> <<>>]
    /\ user_based_recs = [t \in Threads |-> <<>>]
    /\ item_based_recs = [t \in Threads |-> <<>>]
    /\ content_based_recs = [t \in Threads |-> <<>>]
    /\ combined_recs = [t \in Threads |-> <<>>]
    /\ result = [t \in Threads |-> NoResult]
    /\ raised = [t \in Threads |-> {}]
    /\ user_ratings = <<>>
    /\ next_id = 1
    /\ committed = [pair \in Users \X Movies |-> <<>>]
    /\ fit_pc = "idle"
    /\ fit_movie_data = <<>>
    /\ fit_valid_movies = <<>>
    /\ fit_calls = 0
    /\ fit_prior = NLPInit
    /\ similar_query = NoQuery
    /\ rated_popular_movies = {}
    /\ rated_recommendation_movies = {}
    /\ popular_pc = "idle"
    /\ selected_genres = <<>>
    /\ year_range = <<>>
    /\ exclude_movies = {}
    /\ page = 1
    /\ filtered_movies = <<>>
    /\ fetched_pages = <<>>
    /\ popular_returned = <<>>

(***************************************************************************)
(* The caller assembles the rating snapshot (main.py: db.get_all_ratings). *)
(* Records come by ascending (user_id, movie_id); one pair may repeat.     *)
(***************************************************************************)
LoadRecord ==
    /\ phase = "load"
    /\ Len(ratings_data) < MaxRecords
    /\ \E u \in Users, m \in Movies, r \in RatingValues :
          LET rec == Record(u, m, r)
          IN /\ IF ratings_data = <<>> THEN TRUE
                ELSE LET last == RecordKey(ratings_data[Len(ratings_data)])
                     IN IF RecordKey(rec) = last THEN ~HasDuplicates(ratings_data)
                        ELSE RecordKey(rec) > last
             /\ ratings_data' = Append(ratings_data, rec)
    /\ UNCHANGED <<popular_vars, phase, engine_vars, nlp_recommender, request_vars, store_vars, content_vars>>

(***************************************************************************)
(* MovieRecommender.__init__ (lines 12-20) with _prepare_data.             *)
(***************************************************************************)
Construct ==
    /\ phase = "load"
    /\ phase' = "ready"
    /\ ratings_df' = ratings_data
    /\ LET prepared == PrepareData(ratings_data)
       IN /\ user_movie_matrix' = prepared.user_movie_matrix
          /\ normalized_matrix' = prepared.normalized_matrix
          /\ user_similarity_matrix' = prepared.user_similarity_matrix
          /\ item_similarity_matrix' = prepared.item_similarity_matrix
    /\ nlp_recommender' = NLPInit
    /\ UNCHANGED <<popular_vars, ratings_data, request_vars, store_vars, content_vars>>

(***************************************************************************)
(* get_recommendations, one action per step of thread t.                   *)
(***************************************************************************)
\* The call binds user_id and n_recommendations.  The argument movie_data is
\* drawn where the code first reads it (line 152): no earlier step depends
\* on it.
Call(t, users, ns) ==
    /\ phase = "ready"
    /\ pc[t] = "idle"
    /\ \E user_id \in users, n \in ns :
          req' = [req EXCEPT ![t] = [user_id |-> user_id, n |-> n, movie_data |-> <<>>]]
    /\ pc' = [pc EXCEPT ![t] = "check"]
    /\ UNCHANGED <<popular_vars, ratings_data, phase, engine_vars, nlp_recommender, valid_movies,
                   user_scores, item_scores, content_scores,
                   user_based_recs, item_based_recs, content_based_recs, combined_recs,
                   result, raised, store_vars, content_vars>>

\* lines 136-149
CheckEligibility(t) ==
    /\ pc[t] = "check"
    /\ LET status == Eligibility(req[t].user_id)
       IN IF status = "eligible"
          THEN /\ pc' = [pc EXCEPT ![t] = "update"]
               /\ UNCHANGED result
          ELSE /\ pc' = [pc EXCEPT ![t] = "done"]
               /\ result' = [result EXCEPT ![t] = [recommendations |-> <<>>, status |-> status]]
    /\ UNCHANGED <<popular_vars, ratings_data, phase, engine_vars, nlp_recommender, req, valid_movies,
                   user_scores, item_scores, content_scores,
                   user_based_recs, item_based_recs, content_based_recs, combined_recs,
                   raised, store_vars, content_vars>>

\* lines 152-153 and NLPRecommender.fit lines 29-35
UpdateNlpData(t, metas) ==
    /\ pc[t] = "update"
    /\ \E movie_data \in metas :
          /\ req' = [req EXCEPT ![t].movie_data = movie_data]
          /\ IF movie_data = <<>>
             THEN /\ pc' = [pc EXCEPT ![t] = "user_based"]
                  /\ UNCHANGED valid_movies
             ELSE /\ valid_movies' = [valid_movies EXCEPT ![t] = ValidMovies(movie_data)]
                  /\ pc' = [pc EXCEPT ![t] =
                               IF ValidMovies(movie_data) = <<>> THEN "user_based"
                               ELSE "fit_ids"]
    /\ UNCHANGED <<popular_vars, ratings_data, phase, engine_vars, nlp_recommender,
                   user_scores, item_scores, content_scores,
                   user_based_recs, item_based_recs, content_based_recs, combined_recs,
                   result, raised, store_vars, content_vars>>

\* NLPRecommender.fit line 37
FitIds(t) ==
    /\ pc[t] = "fit_ids"
    /\ nlp_recommender' = FitAssign(nlp_recommender, valid_movies[t])
    /\ pc' = [pc EXCEPT ![t] = "fit_matrix"]
    /\ UNCHANGED <<popular_vars, ratings_data, phase, engine_vars, req, valid_movies,
                   user_scores, item_scores, content_scores,
                   user_based_recs, item_based_recs, content_based_recs, combined_recs,
                   result, raised, store_vars, content_vars>>

\* NLPRecommender.fit lines 40-47
FitMatrix(t) ==
    /\ pc[t] = "fit_matrix"
    /\ nlp_recommender' = FitTransform(nlp_recommender)
    /\ pc' = [pc EXCEPT ![t] = "user_based"]
    /\ UNCHANGED <<popular_vars, ratings_data, phase, engine_vars, req, valid_movies,
                   user_scores, item_scores, content_scores,
                   user_based_recs, item_based_recs, content_based_recs, combined_recs,
                   result, raised, store_vars, content_vars>>

\* line 156
UserBased(t) ==
    /\ pc[t] = "user_based"
    /\ \E recommendations \in UserBasedScores(req[t].user_id) :
          /\ user_scores' = [user_scores EXCEPT ![t] = recommendations]
          /\ user_based_recs' =
                 [user_based_recs EXCEPT ![t] = TopOfStrategy(recommendations, req[t].n)]
    /\ pc' = [pc EXCEPT ![t] = "item_based"]
    /\ UNCHANGED <<popular_vars, ratings_data, phase, engine_vars, nlp_recommender, req, valid_movies,
                   item_scores, content_scores,
                   item_based_recs, content_based_recs, combined_recs, result,
                   raised, store_vars, content_vars>>

\* line 157
ItemBased(t) ==
    /\ pc[t] = "item_based"
    /\ \E recommendations \in ItemBasedScores(req[t].user_id) :
          /\ item_scores' = [item_scores EXCEPT ![t] = recommendations]
          /\ item_based_recs' =
                 [item_based_recs EXCEPT ![t] = TopOfStrategy(recommendations, req[t].n)]
    /\ pc' = [pc EXCEPT ![t] = "content_based"]
    /\ UNCHANGED <<popular_vars, ratings_data, phase, engine_vars, nlp_recommender, req, valid_movies,
                   user_scores, content_scores,
                   user_based_recs, content_based_recs, combined_recs, result,
                   raised, store_vars, content_vars>>

\* line 158
ContentBased(t) ==
    /\ pc[t] = "content_based"
    /\ \E recommendations \in ContentBasedScores(RowsOf(ratings_df, req[t].user_id),
                                                   nlp_recommender) :
          /\ content_scores' =
                 [content_scores EXCEPT ![t] = recommendations]
          /\ content_based_recs' =
                 [content_based_recs EXCEPT ![t] = TopOfStrategy(recommendations, req[t].n)]
    /\ pc' = [pc EXCEPT ![t] = "merge"]
    /\ UNCHANGED <<popular_vars, ratings_data, phase, engine_vars, nlp_recommender, req, valid_movies,
                   user_scores, item_scores,
                   user_based_recs, item_based_recs, combined_recs, result,
                   raised, store_vars, content_vars>>

\* lines 160-190
MergeAndRank(t) ==
    /\ pc[t] = "merge"
    /\ combined_recs' = [combined_recs EXCEPT ![t] =
           CombineRecs(user_based_recs[t], item_based_recs[t], content_based_recs[t])]
    /\ result' = [result EXCEPT ![t] =
           FinalResult(FinalRecommendations(combined_recs'[t], req[t].n))]
    /\ pc' = [pc EXCEPT ![t] = "done"]
    /\ UNCHANGED <<popular_vars, ratings_data, phase, engine_vars, nlp_recommender, req, valid_movies,
                   user_scores, item_scores, content_scores,
                   user_based_recs, item_based_recs, content_based_recs,
                   raised, store_vars, content_vars>>

Request(t, metas) ==
    \/ CheckEligibility(t)
    \/ UpdateNlpData(t, metas)
    \/ FitIds(t)
    \/ FitMatrix(t)
    \/ UserBased(t)
    \/ ItemBased(t)
    \/ ContentBased(t)
    \/ MergeAndRank(t)

(***************************************************************************)
(* The engine with one request: construction, then get_recommendations.    *)
(***************************************************************************)
Next ==
    \/ LoadRecord
    \/ Construct
    \/ Call(1, Users, 0..MaxN)
    \/ Request(1, MetaChoices)

Spec == Init /\ [][Next]_vars

(***************************************************************************)
(* One constructed engine shared by two request threads.                   *)
(***************************************************************************)
\* the rating snapshots the shared engine is built from
ConcSnapshots ==
    {<<Record("u1", 1, 5), Record("u1", 2, 5), Record("u1", 3, 2)>>,
     <<Record("u1", 1, 5), Record("u1", 2, 5), Record("u1", 3, 2), Record("u2", 4, 5)>>}

\* the metadata snapshots the two requests draw from
ConcMetas == {md \in MetaChoices : md = <<>> \/ (Len(md) = 2 /\ md[1].id = 1)}

\* the state Construct leaves, for a snapshot of ConcSnapshots
InitConc ==
    /\ ratings_data \in ConcSnapshots
    /\ phase = "ready"
    /\ ratings_df = ratings_data
    /\ user_movie_matrix = PrepareData(ratings_data).user_movie_matrix
    /\ normalized_matrix = PrepareData(ratings_data).normalized_matrix
    /\ user_similarity_matrix = PrepareData(ratings_data).user_similarity_matrix
    /\ item_similarity_matrix = PrepareData(ratings_data).item_similarity_matrix
    /\ nlp_recommender = NLPInit
    /\ pc = [t \in Threads |-> "idle"]
    /\ req = [t \in Threads |-> NoRequest]
    /\ valid_movies = [t \in Threads |-> <<>>]
    /\ user_scores = [t \in Threads |-> <<>>]
    /\ item_scores = [t \in Threads |-> <<>>]
    /\ content_scores = [t \in Threads |-> <<>>]
    /\ user_based_recs = [t \in Threads |-> <<>>]
    /\ item_based_recs = [t \in Threads |-> <<>>]
    /\ content_based_recs = [t \in Threads |-> <<>>]
    /\ combined_recs = [t \in Threads |-> <<>>]
    /\ result = [t \in Threads |-> NoResult]
    /\ raised = [t \in Threads |-> {}]
    /\ user_ratings = <<>>
    /\ next_id = 1
    /\ committed = [pair \in Users \X Movies |-> <<>>]
    /\ fit_pc = "idle"
    /\ fit_movie_data = <<>>
    /\ fit_valid_movies = <<>>
    /\ fit_calls = 0
    /\ fit_prior = NLPInit
    /\ similar_query = NoQuery
    /\ rated_popular_movies = {}
    /\ rated_recommendation_movies = {}
    /\ popular_pc = "idle"
    /\ selected_genres = <<>>
    /\ year_range = <<>>
    /\ exclude_movies = {}
    /\ page = 1
    /\ filtered_movies = <<>>
    /\ fetched_pages = <<>>
    /\ popular_returned = <<>>

NextConc ==
    \E t \in Threads :
        \/ Call(t, {"u1"}, {MaxN})
        \/ Request(t, ConcMetas)

SpecConc == InitConc /\ [][NextConc]_vars

(***************************************************************************)
(* One constructed engine shared by two request threads, with requests     *)
(* that fail the checks of lines 136-149: the snapshot is empty, or the    *)
(* user has one rating (u2) or none (u3).                                  *)
(***************************************************************************)
FrameSnapshots == ConcSnapshots \cup {<<>>}

FrameUsers == {"u1", "u2", "u3"}

\* the state Construct leaves, for a snapshot of FrameSnapshots
InitFrame ==
    /\ ratings_data \in FrameSnapshots
    /\ phase = "ready"
    /\ ratings_df = ratings_data
    /\ user_movie_matrix = PrepareData(ratings_data).user_movie_matrix
    /\ normalized_matrix = PrepareData(ratings_data).normalized_matrix
    /\ user_similarity_matrix = PrepareData(ratings_data).user_similarity_matrix
    /\ item_similarity_matrix = PrepareData(ratings_data).item_similarity_matrix
    /\ nlp_recommender = NLPInit
    /\ pc = [t \in Threads |-> "idle"]
    /\ req = [t \in Threads |-> NoRequest]
    /\ valid_movies = [t \in Threads |-> <<>>]
    /\ user_scores = [t \in Threads |-> <<>>]
    /\ item_scores = [t \in Threads |-> <<>>]
    /\ content_scores = [t \in Threads |-> <<>>]
    /\ user_based_recs = [t \in Threads |-> <<>>]
    /\ item_based_recs = [t \in Threads |-> <<>>]
    /\ content_based_recs = [t \in Threads |-> <<>>]
    /\ combined_recs = [t \in Threads |-> <<>>]
    /\ result = [t \in Threads |-> NoResult]
    /\ raised = [t \in Threads |-> {}]
    /\ user_ratings = <<>>
    /\ next_id = 1
    /\ committed = [pair \in Users \X Movies |-> <<>>]
    /\ fit_pc = "idle"
    /\ fit_movie_data = <<>>
    /\ fit_valid_movies = <<>>
    /\ fit_calls = 0
    /\ fit_prior = NLPInit
    /\ similar_query = NoQuery
    /\ rated_popular_movies = {}
    /\ rated_recommendation_movies = {}
    /\ popular_pc = "idle"
    /\ selected_genres = <<>>
    /\ year_range = <<>>
    /\ exclude_movies = {}
    /\ page = 1
    /\ filtered_movies = <<>>
    /\ fetched_pages = <<>>
    /\ popular_returned = <<>>

NextFrame ==
    \E t \in Threads :
        \/ Call(t, FrameUsers, {MaxN})
        \/ Request(t, ConcMetas)

SpecFrame == InitFrame /\ [][NextFrame]_vars

(***************************************************************************)
(* One constructed engine, built from a larger rating snapshot (ratings 3, *)
(* 4 and 5, up to three users), serving one get_recommendations call.      *)
(***************************************************************************)
SnapRatings == {3, 4, 5}

\* the records that follow the three ratings r of u1: none; u2 with the
\* same ratings; u2 agreeing on movie 1 and rating movie 4; u2 with the
\* same ratings and one for movie 4, and u3 rating movie 1
SnapTails(r) ==
    {<<>>,
     <<Record("u2", 1, r[1]), Record("u2", 2, r[2]), Record("u2", 3, r[3])>>,
     <<Record("u2", 1, r[1]), Record("u2", 4, 5)>>,
     <<Record("u2", 1, r[1]), Record("u2", 2, r[2]), Record("u2", 3, r[3]),
       Record("u2", 4, 5), Record("u3", 1, 3)>>}

Snapshots ==
    UNION {{<<Record("u1", 1, r[1]), Record("u1", 2, r[2]), Record("u1", 3, r[3])>> \o tail :
               tail \in SnapTails(r)} : r \in [1..3 -> SnapRatings]}

\* the metadata snapshots of the call: none, or three movies from 1 or 2 on
SnapMetas == {md \in MetaChoices : md = <<>> \/ (Len(md) = 3 /\ md[1].id <= 2)}

\* the state Construct leaves, for a snapshot of Snapshots
InitSnap ==
    /\ ratings_data \in Snapshots
    /\ phase = "ready"
    /\ ratings_df = ratings_data
    /\ user_movie_matrix = PrepareData(ratings_data).user_movie_matrix
    /\ normalized_matrix = PrepareData(ratings_data).normalized_matrix
    /\ user_similarity_matrix = PrepareData(ratings_data).user_similarity_matrix
    /\ item_similarity_matrix = PrepareData(ratings_data).item_similarity_matrix
    /\ nlp_recommender = NLPInit
    /\ pc = [t \in Threads |-> "idle"]
    /\ req = [t \in Threads |-> NoRequest]
    /\ valid_movies = [t \in Threads |-> <<>>]
    /\ user_scores = [t \in Threads |-> <<>>]
    /\ item_scores = [t \in Threads |-> <<>>]
    /\ content_scores = [t \in Threads |-> <<>>]
    /\ user_based_recs = [t \in Threads |-> <<>>]
    /\ item_based_recs = [t \in Threads |-> <<>>]
    /\ content_based_recs = [t \in Threads |-> <<>>]
    /\ combined_recs = [t \in Threads |-> <<>>]
    /\ result = [t \in Threads |-> NoResult]
    /\ raised = [t \in Threads |-> {}]
    /\ user_ratings = <<>>
    /\ next_id = 1
    /\ committed = [pair \in Users \X Movies |-> <<>>]
    /\ fit_pc = "idle"
    /\ fit_movie_data = <<>>
    /\ fit_valid_movies = <<>>
    /\ fit_calls = 0
    /\ fit_prior = NLPInit
    /\ similar_query = NoQuery
    /\ rated_popular_movies = {}
    /\ rated_recommendation_movies = {}
    /\ popular_pc = "idle"
    /\ selected_genres = <<>>
    /\ year_range = <<>>
    /\ exclude_movies = {}
    /\ page = 1
    /\ filtered_movies = <<>>
    /\ fetched_pages = <<>>
    /\ popular_returned = <<>>

NextSnap ==
    \/ Call(1, {"u1", "u2"}, 1..MaxN)
    \/ Request(1, SnapMetas)

SpecSnap == InitSnap /\ [][NextSnap]_vars

(***************************************************************************)
(* A request during which the try block of a strategy raises.  The         *)
(* snapshots of the model make no strategy raise by themselves; here an    *)
(* exception (any Exception: a MemoryError, a malformed row) can come up   *)
(* in each of the three, and the except clause that catches it runs.       *)
(***************************************************************************)
\* strategies none of which has an except clause of its own
CaughtNowhere(strategy) == FALSE

\* lines 83-85, 106-108, 129-131: each strategy catches Exception itself,
\* logs and returns []
CaughtInStrategy(strategy) == strategy \in {"user_based", "item_based", "content_based"}

\* lines 192-194: what get_recommendations returns for an exception that
\* reaches its own except clause
ErrorResult == [recommendations |-> <<>>, status |-> "error"]

\* line 156 with an exception inside _get_user_based_recommendations
UserBasedRaises(t) ==
    /\ pc[t] = "user_based"
    /\ raised' = [raised EXCEPT ![t] = @ \cup {"user_based"}]
    /\ user_scores' = [user_scores EXCEPT ![t] = <<>>]
    /\ user_based_recs' = [user_based_recs EXCEPT ![t] = <<>>]
    /\ IF CaughtInStrategy("user_based")
       THEN /\ pc' = [pc EXCEPT ![t] = "item_based"]
            /\ UNCHANGED result
       ELSE /\ pc' = [pc EXCEPT ![t] = "done"]
            /\ result' = [result EXCEPT ![t] = ErrorResult]
    /\ UNCHANGED <<popular_vars, ratings_data, phase, engine_vars, nlp_recommender, req, valid_movies,
                   item_scores, content_scores,
                   item_based_recs, content_based_recs, combined_recs, store_vars, content_vars>>

\* line 157 with an exception inside _get_item_based_recommendations
ItemBasedRaises(t) ==
    /\ pc[t] = "item_based"
    /\ raised' = [raised EXCEPT ![t] = @ \cup {"item_based"}]
    /\ item_scores' = [item_scores EXCEPT ![t] = <<>>]
    /\ item_based_recs' = [item_based_recs EXCEPT ![t] = <<>>]
    /\ IF CaughtInStrategy("item_based")
       THEN /\ pc' = [pc EXCEPT ![t] = "content_based"]
            /\ UNCHANGED result
       ELSE /\ pc' = [pc EXCEPT ![t] = "done"]
            /\ result' = [result EXCEPT ![t] = ErrorResult]
    /\ UNCHANGED <<popular_vars, ratings_data, phase, engine_vars, nlp_recommender, req, valid_movies,
                   user_scores, content_scores,
                   user_based_recs, content_based_recs, combined_recs, store_vars, content_vars>>

\* line 158 with an exception inside _get_content_based_recommendations
ContentBasedRaises(t) ==
    /\ pc[t] = "content_based"
    /\ raised' = [raised EXCEPT ![t] = @ \cup {"content_based"}]
    /\ content_scores' = [content_scores EXCEPT ![t] = <<>>]
    /\ content_based_recs' = [content_based_recs EXCEPT ![t] = <<>>]
    /\ IF CaughtInStrategy("content_based")
       THEN /\ pc' = [pc EXCEPT ![t] = "merge"]
            /\ UNCHANGED result
       ELSE /\ pc' = [pc EXCEPT ![t] = "done"]
            /\ result' = [result EXCEPT ![t] = ErrorResult]
    /\ UNCHANGED <<popular_vars, ratings_data, phase, engine_vars, nlp_recommender, req, valid_movies,
                   user_scores, item_scores,
                   user_based_recs, item_based_recs, combined_recs, store_vars, content_vars>>

NextFault ==
    \/ LoadRecord
    \/ Construct
    \/ Call(1, {"u1"}, {MaxN})
    \/ Request(1, ConcMetas)
    \/ UserBasedRaises(1)
    \/ ItemBasedRaises(1)
    \/ ContentBasedRaises(1)

SpecFault == Init /\ [][NextFault]_vars

(***************************************************************************)
(* The content model by itself (src/src/nlp_recommender.py): fit calls and *)
(* get_similar_movies calls on one NLPRecommender.  fit assigns movie_ids  *)
(* and movie_descriptions (line 37) and then movie_tfidf_matrix (line 40); *)
(* a get_similar_movies call of another thread can run in between.         *)
(* get_similar_movies assigns no attribute, so what a call returns depends *)
(* on the fit steps before it only: the model follows the NLPRecommender   *)
(* up to one get_similar_movies call and keeps the state that call saw.    *)
(***************************************************************************)
\* the overviews of a corpus: none, only a stop word, a word, two words
CorpusOverviews == {<<>>, <<"the">>, <<"x">>, <<"x", "y">>}

\* the corpora fit is called with: up to MaxCorpus movies, ids 1, 2, ...
ContentCorpora ==
    UNION {{md \in [1..k -> {Movie(m, ov) : m \in 1..MaxCorpus, ov \in CorpusOverviews}] :
               \A i \in 1..k : md[i].id = i} : k \in 0..MaxCorpus}

\* NLPRecommender.fit, lines 27-35
FitBegin ==
    /\ similar_query = NoQuery
    /\ fit_pc = "idle"
    /\ fit_calls < MaxFits
    /\ \E corpus \in ContentCorpora :
          /\ fit_movie_data' = corpus
          /\ fit_valid_movies' = ValidMovies(corpus)
          /\ fit_pc' = IF ValidMovies(corpus) = <<>> THEN "idle" ELSE "assign"
    /\ fit_calls' = fit_calls + 1
    /\ fit_prior' = nlp_recommender
    /\ UNCHANGED <<popular_vars, ratings_data, phase, engine_vars, nlp_recommender, request_vars,
                   store_vars, similar_query>>

\* NLPRecommender.fit, line 37
FitAssignIds ==
    /\ similar_query = NoQuery
    /\ fit_pc = "assign"
    /\ nlp_recommender' = FitAssign(nlp_recommender, fit_valid_movies)
    /\ fit_pc' = "transform"
    /\ UNCHANGED <<popular_vars, ratings_data, phase, engine_vars, request_vars, store_vars,
                   fit_movie_data, fit_valid_movies, fit_calls, fit_prior, similar_query>>

\* NLPRecommender.fit, lines 40-47
FitTransformMatrix ==
    /\ similar_query = NoQuery
    /\ fit_pc = "transform"
    /\ nlp_recommender' = FitTransform(nlp_recommender)
    /\ fit_pc' = "idle"
    /\ UNCHANGED <<popular_vars, ratings_data, phase, engine_vars, request_vars, store_vars,
                   fit_movie_data, fit_valid_movies, fit_calls, fit_prior, similar_query>>

\* NLPRecommender.get_similar_movies(movie_id, n_recommendations)
SimilarQuery ==
    /\ similar_query = NoQuery
    /\ \E movie_id \in 1..(MaxCorpus + 1), n_recommendations \in 0..MaxK :
          \E similar_movies \in GetSimilarMovies(nlp_recommender, movie_id,
                                                 n_recommendations) :
              similar_query' =
                  [movie_id |-> movie_id, n_recommendations |-> n_recommendations,
                   returned |-> similar_movies]
    /\ UNCHANGED <<popular_vars, ratings_data, phase, engine_vars, nlp_recommender, request_vars,
                   store_vars, fit_pc, fit_movie_data, fit_valid_movies, fit_calls,
                   fit_prior>>

NextContent ==
    \/ FitBegin
    \/ FitAssignIds
    \/ FitTransformMatrix
    \/ SimilarQuery

SpecContent == Init /\ [][NextContent]_vars

(***************************************************************************)
(* The rating store (src/src/database.py): table user_ratings with         *)
(* UNIQUE(user_id, movie_id) and CHECK (rating >= 1 AND rating <= 5).      *)
(***************************************************************************)
\* the arguments add_rating is called with
StoreMovies == 1..NumStoreMovies

StoreRatings == {RATING_MIN - 1, RATING_MIN, RATING_MAX, RATING_MAX + 1}

Row(id, u, m, r) == [id |-> id, user_id |-> u, movie_id |-> m, rating |-> r]

\* CHECK (rating >= 1 AND rating <= 5)
CheckRating(r) == r >= RATING_MIN /\ r <= RATING_MAX

\* the row UNIQUE(user_id, movie_id) makes the new one conflict with
Conflicts(table, u, m) ==
    {i \in 1..Len(table) : table[i].user_id = u /\ table[i].movie_id = m}

\* a plain INSERT on a table without the UNIQUE constraint
InsertOnly(table, id, u, m, r) == {Append(table, Row(id, u, m, r))}

\* INSERT ... ON CONFLICT (user_id, movie_id) DO UPDATE SET rating = ...:
\* the tables the statement can leave.  Without a conflict the row is added;
\* with one the existing row (its id kept) gets the rating, and the new row
\* version is either in place or at the end of the heap.
Upsert(table, id, u, m, r) ==
    IF Conflicts(table, u, m) = {}
    THEN {Append(table, Row(id, u, m, r))}
    ELSE LET i == CHOOSE i \in Conflicts(table, u, m) : TRUE
             updated == [table[i] EXCEPT !.rating = r]
         IN {[table EXCEPT ![i] = updated],
             Append(SubSeq(table, 1, i - 1) \o SubSeq(table, i + 1, Len(table)), updated)}

\* Database.add_rating in its transaction: a rating the CHECK rejects raises
\* and rolls back; the id sequence advances either way.
AddRating ==
    /\ next_id <= MaxWrites
    /\ \E u \in Users, m \in StoreMovies, r \in StoreRatings :
          IF CheckRating(r)
          THEN /\ \E table \in Upsert(user_ratings, next_id, u, m, r) : user_ratings' = table
               /\ committed' = [committed EXCEPT ![<<u, m>>] = Append(@, r)]
          ELSE UNCHANGED <<user_ratings, committed>>
    /\ next_id' = next_id + 1
    /\ UNCHANGED <<popular_vars, ratings_data, phase, engine_vars, nlp_recommender, request_vars, content_vars>>

\* Database.get_all_ratings(): SELECT user_id, movie_id, rating FROM
\* user_ratings, read as the snapshot a recommender is built from (main.py)
GetAllRatings ==
    /\ phase = "load"
    /\ ratings_data' = [i \in 1..Len(user_ratings) |->
                           Record(user_ratings[i].user_id, user_ratings[i].movie_id,
                                  user_ratings[i].rating)]
    /\ UNCHANGED <<popular_vars, phase, engine_vars, nlp_recommender, request_vars, store_vars, content_vars>>

NextStore ==
    \/ AddRating
    \/ GetAllRatings

SpecStore == Init /\ [][NextStore]_vars

(***************************************************************************)
(* The popular section (src/main.py): get_filtered_popular_movies pages    *)
(* through tmdb.get_popular_movies, and _submit_rating records the movies  *)
(* rated in the session.  A release date is <<year>>, or <<>> when the     *)
(* movie has none; a year range is <<first, last>>, or <<>> for None.      *)
(***************************************************************************)
\* the session's user (generate_user_id)
SessionUser == "u1"

PopularMovie(id, genre_ids, release_date) ==
    [id |-> id, genre_ids |-> genre_ids, release_date |-> release_date]

\* the movies the catalogue answers with
Catalogue ==
    <<PopularMovie(1, <<1>>, <<2000>>),
      PopularMovie(2, <<2>>, <<2020>>),
      PopularMovie(3, <<1, 2>>, <<>>)>>

\* what tmdb.get_popular_movies can return for a page: a dict without
\* 'results'; one with an empty list (also what it returns for a failed
\* request, tmdb_api.py:45-47); one with a list of movies
PopularResponses ==
    {[has_results |-> FALSE, results |-> <<>>],
     [has_results |-> TRUE, results |-> <<>>],
     [has_results |-> TRUE, results |-> Catalogue],
     [has_results |-> TRUE, results |-> <<Catalogue[3], Catalogue[2]>>]}

\* the filters of the sidebar
GenreChoices == {<<>>, <<1>>}

YearRangeChoices == {<<>>, <<1990, 2010>>}

\* the sections a rating is submitted from
Sections == {"popular", "recommendations"}

\* line 124: int(release_date[:4]) if the movie has a release date, else 0
ReleaseYear(movie) == IF movie.release_date = <<>> THEN 0 ELSE movie.release_date[1]

\* the criteria without the test of lines 114-116
MatchesGenreAndYear(movie, genres, years, exclude) ==
    /\ genres = <<>> \/ \E i \in 1..Len(movie.genre_ids) : movie.genre_ids[i] \in SeqToSet(genres)
    /\ years = <<>> \/ (years[1] <= ReleaseYear(movie) /\ ReleaseYear(movie) <= years[2])

\* _movie_matches_criteria, lines 112-128
MovieMatchesCriteria(movie, genres, years, exclude) ==
    IF exclude # {} /\ movie.id \in exclude THEN FALSE
    ELSE IF genres # <<>>
            /\ ~\E i \in 1..Len(movie.genre_ids) : movie.genre_ids[i] \in SeqToSet(genres)
         THEN FALSE
    ELSE IF years # <<>> /\ ~(years[1] <= ReleaseYear(movie) /\ ReleaseYear(movie) <= years[2])
         THEN FALSE
    ELSE TRUE

\* main.py:337-341 and lines 91-93: the call, with the session's set of
\* movies rated from the popular section as exclude_movies
CallPopular ==
    /\ popular_pc = "idle"
    /\ \E genres \in GenreChoices, years \in YearRangeChoices :
          /\ selected_genres' = genres
          /\ year_range' = years
    /\ exclude_movies' = rated_popular_movies
    /\ filtered_movies' = <<>>
    /\ page' = 1
    /\ fetched_pages' = <<>>
    /\ popular_returned' = <<>>
    /\ popular_pc' = "loop"
    /\ UNCHANGED <<ratings_data, phase, engine_vars, nlp_recommender, request_vars,
                   store_vars, content_vars, rated_popular_movies,
                   rated_recommendation_movies>>

\* lines 95-108: one turn of the while loop
FetchPage ==
    /\ popular_pc = "loop"
    /\ Len(filtered_movies) < POPULAR_SHOWN
    /\ page <= max_pages
    /\ \E popular_movies \in PopularResponses :
          /\ fetched_pages' = Append(fetched_pages,
                                     [page |-> page,
                                      has_results |-> popular_movies.has_results])
          /\ IF ~popular_movies.has_results
             THEN /\ popular_pc' = "return"
                  /\ UNCHANGED <<filtered_movies, page>>
             ELSE LET page_movies ==
                          SelectSeq(popular_movies.results,
                                    LAMBDA movie :
                                        MovieMatchesCriteria(movie, selected_genres,
                                                             year_range, exclude_movies))
                  IN /\ filtered_movies' = filtered_movies \o page_movies
                     /\ page' = page + 1
                     /\ UNCHANGED popular_pc
    /\ UNCHANGED <<ratings_data, phase, engine_vars, nlp_recommender, request_vars,
                   store_vars, content_vars, rated_popular_movies,
                   rated_recommendation_movies, selected_genres, year_range,
                   exclude_movies, popular_returned>>

\* line 110, after the break or the end of the loop
ReturnPopular ==
    /\ \/ popular_pc = "return"
       \/ /\ popular_pc = "loop"
          /\ ~(Len(filtered_movies) < POPULAR_SHOWN /\ page <= max_pages)
    /\ popular_returned' = Take(filtered_movies, POPULAR_SHOWN)
    /\ popular_pc' = "done"
    /\ UNCHANGED <<ratings_data, phase, engine_vars, nlp_recommender, request_vars,
                   store_vars, content_vars, rated_popular_movies,
                   rated_recommendation_movies, selected_genres, year_range,
                   exclude_movies, page, filtered_movies, fetched_pages>>

\* _submit_rating, lines 204-215, for a movie of the grid shown (the popular
\* section shows the returned list); st.experimental_rerun starts the script
\* over, and the locals of the run are gone
SubmitRating ==
    /\ popular_pc = "done"
    /\ next_id <= MaxSubmits
    /\ \E section \in Sections, i \in 1..Len(Catalogue), rating \in {RATING_MAX} :
          LET movie_id == Catalogue[i].id
          IN /\ section = "popular" =>
                    \E k \in 1..Len(popular_returned) : popular_returned[k].id = movie_id
             /\ \E table \in Upsert(user_ratings, next_id, SessionUser, movie_id, rating) :
                    user_ratings' = table
             /\ committed' = [committed EXCEPT ![<<SessionUser, movie_id>>] =
                                                   Append(@, rating)]
             /\ IF section = "popular"
                THEN /\ rated_popular_movies' = rated_popular_movies \cup {movie_id}
                     /\ UNCHANGED rated_recommendation_movies
                ELSE /\ rated_recommendation_movies' =
                            rated_recommendation_movies \cup {movie_id}
                     /\ UNCHANGED rated_popular_movies
    /\ next_id' = next_id + 1
    /\ popular_pc' = "idle"
    /\ selected_genres' = <<>>
    /\ year_range' = <<>>
    /\ exclude_movies' = {}
    /\ page' = 1
    /\ filtered_movies' = <<>>
    /\ fetched_pages' = <<>>
    /\ popular_returned' = <<>>
    /\ UNCHANGED <<ratings_data, phase, engine_vars, nlp_recommender, request_vars,
                   content_vars>>

NextPopular ==
    \/ CallPopular
    \/ FetchPage
    \/ ReturnPopular
    \/ SubmitRating

SpecPopular == Init /\ [][NextPopular]_vars

\* every tmdb.get_popular_movies call returns, and the function goes on
SpecPopularFair ==
    Init /\ [][NextPopular]_vars /\ WF_vars(FetchPage) /\ WF_vars(ReturnPopular)

(***************************************************************************)
(* Properties of the rating store.                                         *)
(***************************************************************************)
\* the records the table holds for one (user_id, movie_id)
RowsFor(table, pair) ==
    {table[i] : i \in {k \in 1..Len(table) :
                          <<table[k].user_id, table[k].movie_id>> = pair}}

\* after any sequence of add_rating calls: at most one record per pair, a
\* pair has a record exactly when add_rating committed a rating for it, and
\* the record holds the rating committed last
StoreLastWriteWins ==
    /\ \A i, j \in 1..Len(user_ratings) :
           (user_ratings[i].user_id = user_ratings[j].user_id
            /\ user_ratings[i].movie_id = user_ratings[j].movie_id) => i = j
    /\ \A pair \in Users \X Movies :
           IF committed[pair] = <<>> THEN RowsFor(user_ratings, pair) = {}
           ELSE \E row \in RowsFor(user_ratings, pair) :
                   row.rating = committed[pair][Len(committed[pair])]

\* one step changes the records of at most one pair
OtherPairsUnchanged ==
    \A p, q \in Users \X Movies :
        (p # q /\ RowsFor(user_ratings', p) # RowsFor(user_ratings, p))
            => RowsFor(user_ratings', q) = RowsFor(user_ratings, q)

\* C9: Rating Store uniqueness: after any sequence of add_rating calls the
\* store holds at most one record per (user_id, movie_id), the rating read
\* back for a pair is the rating of the most recent add_rating for it, and a
\* write to one pair leaves the records of every other pair unchanged.
C9_StoreUniqueLastWriteWins == []StoreLastWriteWins /\ [][OtherPairsUnchanged]_vars

\* C9 witness: a pair written twice with different ratings holds the second,
\* next to the record of another pair, and the snapshot read back shows both
C9_Witness ==
    /\ Len(user_ratings) = 2
    /\ \E pair \in Users \X Movies :
           /\ Len(committed[pair]) = 2
           /\ committed[pair][1] # committed[pair][2]
           /\ \E row \in RowsFor(user_ratings, pair) : row.rating = committed[pair][2]
    /\ Len(ratings_data) = 2
    /\ \A i \in 1..2 : ratings_data[i].rating = user_ratings[i].rating

(***************************************************************************)
(* Properties of get_recommendations.                                      *)
(***************************************************************************)
\* the movies of the user's rating records
RatedMovies(user_id) == SeqToSet(MovieIdsOf(RowsOf(ratings_df, user_id)))

RatingCount(user_id) == Len(RowsOf(ratings_df, user_id))

Initialized == ~user_movie_matrix.none /\ ~user_similarity_matrix.none

Returned(t) == pc[t] = "done"

\* the request went through the strategies and the merge
PassedChecks(t) == Returned(t) /\ result[t].status \in {"success", "no_recommendations"}

EmptyWith(status) == [recommendations |-> <<>>, status |-> status]

\* C1: no movie_id in the list get_recommendations returns appears in a
\* rating record of the requesting user, whichever strategy proposed it.
C1_NeverRecommendsRated ==
    \A t \in Threads :
        Returned(t) => SeqToSet(result[t].recommendations) \cap RatedMovies(req[t].user_id) = {}

\* C2 as stated: for any rating snapshot, a user with 0 ratings gets
\* user_not_found, one with 1 or 2 ratings gets insufficient_ratings, both
\* with an empty list; a user with at least 3 ratings and non-empty matrices
\* ends in success or no_recommendations.
C2_StatusByRatingCount ==
    \A t \in Threads :
        Returned(t) =>
            LET count == RatingCount(req[t].user_id)
            IN /\ count = 0 => result[t] = EmptyWith("user_not_found")
               /\ count \in {1, 2} => result[t] = EmptyWith("insufficient_ratings")
               /\ (count >= 3 /\ Initialized) => PassedChecks(t)

\* C2, amended: when the rating matrix and the user similarity matrix are
\* initialized, a user with 0 ratings gets user_not_found, one with 1 or 2
\* ratings gets insufficient_ratings, both with an empty list, and a user
\* with at least 3 ratings ends in success or no_recommendations; when they
\* are not, every request gets uninitialized and an empty list.  Only a
\* request of a user with at least 3 ratings on an initialized engine is
\* ever past the checks.
C2_StatusByRatingCountWhenInitialized ==
    \A t \in Threads :
        LET count == RatingCount(req[t].user_id)
        IN /\ Returned(t) =>
                  IF ~Initialized THEN result[t] = EmptyWith("uninitialized")
                  ELSE IF count = 0 THEN result[t] = EmptyWith("user_not_found")
                  ELSE IF count < 3 THEN result[t] = EmptyWith("insufficient_ratings")
                  ELSE PassedChecks(t)
           /\ pc[t] \notin {"idle", "check", "done"} => (Initialized /\ count >= 3)

\* C2 witness: on an initialized engine a user with 2 ratings was refused
\* with insufficient_ratings
C2_Witness ==
    /\ Initialized
    /\ Returned(1)
    /\ RatingCount(req[1].user_id) = 2
    /\ result[1].status = "insufficient_ratings"

\* C3: constructed from an empty rating snapshot, the recommender has no
\* rating matrix and no similarity matrix, and every get_recommendations
\* call returns an empty list with status uninitialized without going past
\* the checks.
C3_EmptySnapshotUninitialized ==
    (phase = "ready" /\ ratings_data = <<>>) =>
        /\ user_movie_matrix.none
        /\ user_similarity_matrix.none
        /\ item_similarity_matrix.none
        /\ \A t \in Threads :
               /\ pc[t] \in {"idle", "check", "done"}
               /\ Returned(t) => result[t] = EmptyWith("uninitialized")

\* C3 witness: a call on a recommender built from the empty snapshot returned
C3_Witness ==
    /\ phase = "ready"
    /\ ratings_data = <<>>
    /\ Returned(1)
    /\ req[1].n = MaxN
    /\ result[1].status = "uninitialized"

\* C4: every result of get_recommendations with n >= 1 has one of the five
\* statuses, a list of at most n entries that is non-empty exactly when the
\* status is success, and status no_recommendations exactly when the request
\* passed the checks and the computed list is empty.
C4_ResultShape ==
    \A t \in Threads :
        (Returned(t) /\ req[t].n >= 1) =>
            /\ result[t].status \in {"uninitialized", "user_not_found", "insufficient_ratings",
                                     "no_recommendations", "success"}
            /\ Len(result[t].recommendations) <= req[t].n
            /\ result[t].recommendations # <<>> <=> result[t].status = "success"
            /\ result[t].status = "no_recommendations" <=>
                   (Eligibility(req[t].user_id) = "eligible" /\ result[t].recommendations = <<>>)

\* C4 witness: a request with n = 1 and two candidates returned one movie
C4_Witness ==
    /\ Returned(1)
    /\ req[1].n = 1
    /\ Len(combined_recs[1]) = 2
    /\ Len(result[1].recommendations) = 1
    /\ result[1].status = "success"

\* the keys of a dict, and the score it holds for a movie (0 when it holds none)
Keys(d) == SeqToSet(DictKeys(d))

ScoreIn(d, movie_id) == IF DictHas(d, movie_id) THEN DictGet(d, movie_id) ELSE 0

\* combined is the weighted sum of the three score mappings: its candidates
\* are the movies any of them scores, each once, and a combined score (in
\* units of 1 / (10 * Scale)) is 4 u + 3 i + 3 c
WeightedSumOf(combined, user, item, content) ==
    /\ Keys(combined) = Keys(user) \cup Keys(item) \cup Keys(content)
    /\ Cardinality(Keys(combined)) = Len(combined)
    /\ \A movie_id \in Keys(combined) :
           DictGet(combined, movie_id) =
               4 * ScoreIn(user, movie_id) + 3 * ScoreIn(item, movie_id)
               + 3 * Scale * ScoreIn(content, movie_id)

\* list holds the n best-scored entries of the dict scores
BestOf(list, scores, n) ==
    /\ Len(list) = Min(n, Len(scores))
    /\ \A i \in 1..Len(list) : \E k \in 1..Len(scores) : scores[k] = list[i]
    /\ Cardinality(Keys(list)) = Len(list)
    /\ \A i \in 1..Len(list) : \A k \in 1..Len(scores) :
           scores[k][1] \notin Keys(list) => list[i][2] >= scores[k][2]

\* C5 as stated: for every candidate movie, combined_score = 0.4 user_score
\* + 0.3 item_score + 0.3 content_score over the scores each strategy
\* computed for the movie, 0 where a strategy computed none; a movie scored
\* by a single strategy is a candidate.  (Stated for requests with n >= 1.)
C5_MergeOfComputedScores ==
    \A t \in Threads :
        (PassedChecks(t) /\ req[t].n >= 1) =>
            WeightedSumOf(combined_recs[t], user_scores[t], item_scores[t], content_scores[t])

\* C5, amended: each strategy returns only its n best-scored movies, and for
\* every movie in one of the three returned lists combined_score = 0.4
\* user_score + 0.3 item_score + 0.3 content_score over the scores in the
\* returned lists, 0 where a list does not hold the movie; a movie a strategy
\* scored but cut from its n best gets nothing from that strategy.
C5_MergeOfReturnedLists ==
    \A t \in Threads :
        PassedChecks(t) =>
            /\ BestOf(user_based_recs[t], user_scores[t], req[t].n)
            /\ BestOf(item_based_recs[t], item_scores[t], req[t].n)
            /\ BestOf(content_based_recs[t], content_scores[t], req[t].n)
            /\ WeightedSumOf(combined_recs[t], user_based_recs[t], item_based_recs[t],
                             content_based_recs[t])

\* C5 witness: a movie is in the returned lists of the user-based and of the
\* content-based strategy, whose other scored movie was cut
C5_Witness ==
    /\ PassedChecks(1)
    /\ Len(content_scores[1]) > Len(content_based_recs[1])
    /\ \E movie_id \in Keys(combined_recs[1]) :
           /\ movie_id \in Keys(user_based_recs[1])
           /\ movie_id \in Keys(content_based_recs[1])

\* C6: the returned list is the candidates sorted by combined score
\* descending, equal scores by ascending movie_id, cut to the first n.
C6_RankedByScoreThenMovieId ==
    \A t \in Threads :
        PassedChecks(t) =>
            LET combined == combined_recs[t]
                list == result[t].recommendations
                Before(a, b) ==
                    \/ DictGet(combined, a) > DictGet(combined, b)
                    \/ (DictGet(combined, a) = DictGet(combined, b) /\ a < b)
            IN /\ Len(list) = Min(req[t].n, Len(combined))
               /\ SeqToSet(list) \subseteq Keys(combined)
               /\ \A i, j \in 1..Len(list) : i < j => Before(list[i], list[j])
               /\ \A i \in 1..Len(list) :
                      \A movie_id \in Keys(combined) \ SeqToSet(list) : Before(list[i], movie_id)

\* the snapshot with, of the records of one (user_id, movie_id), the last only
DedupLast(df) ==
    LET kept == {i \in 1..Len(df) :
                    ~\E j \in (i + 1)..Len(df) :
                        df[j].user_id = df[i].user_id /\ df[j].movie_id = df[i].movie_id}
        Nth(k) == CHOOSE i \in kept : Cardinality({j \in kept : j <= i}) = k
    IN [k \in 1..Cardinality(kept) |-> df[Nth(k)]]

\* C7: built from a snapshot with several records for one (user_id,
\* movie_id), the engine is initialized and holds the matrices of the
\* snapshot with the last such record only.
C7_DuplicatesLastWins ==
    (phase = "ready" /\ HasDuplicates(ratings_df)) =>
        /\ Initialized
        /\ user_movie_matrix = PrepareData(DedupLast(ratings_df)).user_movie_matrix
        /\ user_similarity_matrix = PrepareData(DedupLast(ratings_df)).user_similarity_matrix
        /\ item_similarity_matrix = PrepareData(DedupLast(ratings_df)).item_similarity_matrix

DistinctUsers(df) == {df[i].user_id : i \in 1..Len(df)}

DistinctMovies(df) == {df[i].movie_id : i \in 1..Len(df)}

\* C8: built from a snapshot with fewer than 2 distinct users, the engine
\* has no user similarity matrix, with fewer than 2 distinct movies no item
\* similarity matrix, and a request returns uninitialized, or a computed
\* result to which the strategy resting on the missing matrix gave nothing.
C8_DegenerateSnapshotUninitialized ==
    phase = "ready" =>
        LET few_users == Cardinality(DistinctUsers(ratings_df)) < 2
            few_movies == Cardinality(DistinctMovies(ratings_df)) < 2
        IN /\ few_users => user_similarity_matrix.none
           /\ few_movies => item_similarity_matrix.none
           /\ \A t \in Threads :
                  (Returned(t) /\ (few_users \/ few_movies)) =>
                      \/ result[t].status = "uninitialized"
                      \/ /\ PassedChecks(t)
                         /\ few_users => user_based_recs[t] = <<>>
                         /\ few_movies => item_based_recs[t] = <<>>

\* the results get_recommendations can return for a request that runs alone
\* on the engine as constructed
AloneResults(user_id, n_recommendations, movie_data) ==
    IF Eligibility(user_id) # "eligible" THEN {EmptyWith(Eligibility(user_id))}
    ELSE LET nlp == IF movie_data = <<>> THEN NLPInit ELSE Fit(NLPInit, movie_data)
         IN {FinalResult(FinalRecommendations(CombineRecs(u, i, c), n_recommendations)) :
                u \in GetUserBasedRecommendations(user_id, n_recommendations),
                i \in GetItemBasedRecommendations(user_id, n_recommendations),
                c \in GetContentBasedRecommendations(RowsOf(ratings_df, user_id),
                                                     n_recommendations, nlp)}

\* C10: for any interleaving of two get_recommendations calls on one engine
\* instance, each call returns a result it can return when run alone; no
\* call observes state written by the other.
C10_CallsIndependent ==
    \A t \in Threads :
        Returned(t) => result[t] \in AloneResults(req[t].user_id, req[t].n, req[t].movie_data)

\* the list is the candidates of combined by descending score, cut to n
RankedCutOf(list, combined, n) ==
    /\ Len(list) = Min(n, Len(combined))
    /\ SeqToSet(list) \subseteq Keys(combined)
    /\ Cardinality(SeqToSet(list)) = Len(list)
    /\ \A i, j \in 1..Len(list) :
           i < j => DictGet(combined, list[i]) >= DictGet(combined, list[j])
    /\ \A i \in 1..Len(list) : \A movie_id \in Keys(combined) \ SeqToSet(list) :
           DictGet(combined, list[i]) >= DictGet(combined, movie_id)

\* C11: strategy isolation: when a strategy raises during a request,
\* get_recommendations neither raises nor aborts (the request goes on and
\* ends in success or no_recommendations); the strategy that raised
\* contributes nothing, the others return what they return without the
\* failure, and the final list is the ranked merge of their returned scores.
C11_StrategyIsolation ==
    \A t \in Threads :
        raised[t] # {} =>
            /\ result[t].status \in {"", "success", "no_recommendations"}
            /\ pc[t] \in {"item_based", "content_based", "merge", "done"}
            /\ "user_based" \in raised[t] => user_based_recs[t] = <<>>
            /\ "item_based" \in raised[t] => item_based_recs[t] = <<>>
            /\ "content_based" \in raised[t] => content_based_recs[t] = <<>>
            /\ Returned(t) =>
                   /\ PassedChecks(t)
                   /\ "user_based" \notin raised[t] =>
                          user_based_recs[t] \in
                              GetUserBasedRecommendations(req[t].user_id, req[t].n)
                   /\ "item_based" \notin raised[t] =>
                          item_based_recs[t] \in
                              GetItemBasedRecommendations(req[t].user_id, req[t].n)
                   /\ "content_based" \notin raised[t] =>
                          content_based_recs[t] \in
                              GetContentBasedRecommendations(
                                  RowsOf(ratings_df, req[t].user_id), req[t].n, nlp_recommender)
                   /\ WeightedSumOf(combined_recs[t], user_based_recs[t], item_based_recs[t],
                                    content_based_recs[t])
                   /\ RankedCutOf(result[t].recommendations, combined_recs[t], req[t].n)
                   /\ result[t].status = "success" <=> result[t].recommendations # <<>>

\* C11 witness: the user-based strategy raised, the content-based one did
\* not, and the request returned the movies the content-based one proposed
C11_Witness ==
    /\ Returned(1)
    /\ raised[1] = {"user_based"}
    /\ content_based_recs[1] # <<>>
    /\ result[1].status = "success"
    /\ SeqToSet(result[1].recommendations) \subseteq Keys(content_based_recs[1])

(***************************************************************************)
(* Properties of the content model.                                        *)
(***************************************************************************)
\* a get_similar_movies call has returned
Queried == similar_query # NoQuery

\* no fit call is between its assignments
Quiescent == fit_pc = "idle"

\* the model holds a matrix, and movie_id is in its corpus
FittedWith(nlp, movie_id) ==
    /\ ~nlp.movie_tfidf_matrix.none
    /\ ~nlp.movie_ids.none
    /\ movie_id \in SeqToSet(nlp.movie_ids.values)

\* the content similarity of two movies of the fitted corpus
ContentSimilarity(nlp, a, b) ==
    CosineOfRows(nlp.movie_tfidf_matrix.values[IndexOf(nlp.movie_ids.values, a)],
                 nlp.movie_tfidf_matrix.values[IndexOf(nlp.movie_ids.values, b)])

\* C12: for every fitted corpus, also one with identical descriptions or
\* with a description whose term vector is all zero, get_similar_movies(
\* movie_id, k) returns movie ids ordered most similar first, never the
\* input movie_id itself, and at most k of them.
C12_SimilarOrderedWithoutInput ==
    (Queried /\ Quiescent /\ FittedWith(nlp_recommender, similar_query.movie_id)) =>
        LET list == similar_query.returned
            movie_id == similar_query.movie_id
        IN /\ movie_id \notin SeqToSet(list)
           /\ Len(list) <= similar_query.n_recommendations
           /\ SeqToSet(list) \subseteq SeqToSet(nlp_recommender.movie_ids.values)
           /\ \A i, j \in 1..Len(list) :
                  i < j => ContentSimilarity(nlp_recommender, movie_id, list[i])
                               >= ContentSimilarity(nlp_recommender, movie_id, list[j])

\* what get_similar_movies can return on the model a complete fit of
\* movie_data alone leaves (nothing fitted when it holds no description)
SimilarAfterFitOf(movie_data, movie_id, n_recommendations) ==
    GetSimilarMovies(
        IF ValidMovies(movie_data) = <<>> THEN NLPInit ELSE Fit(NLPInit, movie_data),
        movie_id, n_recommendations)

\* C13: get_similar_movies fails soft: it returns an empty list when the
\* model was never fit, when movie_id is not in the fitted corpus, and when
\* the most recent fit was given an empty corpus or one with no non-empty
\* description, also when an earlier fit on the same model had succeeded.
C13_SimilarFailsSoft ==
    (Queried /\ Quiescent) =>
        /\ fit_calls = 0 => similar_query.returned = <<>>
        /\ ~FittedWith(nlp_recommender, similar_query.movie_id) =>
               similar_query.returned = <<>>
        /\ (fit_calls >= 1 /\ ValidMovies(fit_movie_data) = <<>>) =>
               similar_query.returned = <<>>

\* fitting once more with the corpus of the latest fit changes nothing
FitIdempotent ==
    (Quiescent /\ fit_calls >= 1) =>
        Fit(nlp_recommender, fit_movie_data) = nlp_recommender

\* after a fit the model is that of its corpus alone: nothing of the prior
\* state is left
FitReplacesPriorState ==
    (Queried /\ Quiescent /\ fit_calls >= 1) =>
        similar_query.returned \in
            SimilarAfterFitOf(fit_movie_data, similar_query.movie_id,
                              similar_query.n_recommendations)

\* a call during a fit sees the model the fit found or the one it leaves
SimilarSeesOldOrNew ==
    (Queried /\ ~Quiescent) =>
        similar_query.returned \in
            GetSimilarMovies(fit_prior, similar_query.movie_id,
                             similar_query.n_recommendations)
            \cup SimilarAfterFitOf(fit_movie_data, similar_query.movie_id,
                                   similar_query.n_recommendations)

\* C19: fit is idempotent and atomic: fitting twice with one corpus leaves
\* the model of fitting once; each fit replaces the whole prior state, so a
\* get_similar_movies call interleaved with a fit sees the complete old
\* model or the complete new one, never new movie ids with the old matrix,
\* and never a stale model after a fit.
C19_FitIdempotentAtomic ==
    /\ FitIdempotent
    /\ FitReplacesPriorState
    /\ SimilarSeesOldOrNew

\* the five statuses get_recommendations answers a request with
DataStatuses ==
    {"uninitialized", "user_not_found", "insufficient_ratings", "no_recommendations",
     "success"}

\* the movies any of the three strategies scored for the request
Candidates(t) == Keys(user_scores[t]) \cup Keys(item_scores[t]) \cup Keys(content_scores[t])

\* a request for more movies than there are candidates returns each
\* candidate once and nothing else
LargeNReturnsAllCandidates ==
    \A t \in Threads :
        (PassedChecks(t) /\ req[t].n > Cardinality(Candidates(t))) =>
            /\ SeqToSet(result[t].recommendations) = Candidates(t)
            /\ Len(result[t].recommendations) = Cardinality(Candidates(t))

\* C14: a request with n = 0 is rejected as a contract violation, not
\* answered with one of the data statuses; a request with n larger than the
\* number of candidates returns exactly all candidates, without padding or
\* duplicates.
C14_ZeroRejectedLargeNReturnsAll ==
    /\ \A t \in Threads :
           (Returned(t) /\ req[t].n = 0) => result[t].status \notin DataStatuses
    /\ LargeNReturnsAllCandidates

(***************************************************************************)
(* Properties of the three strategies.                                     *)
(***************************************************************************)
\* the user-based (item-based, content-based) step of the request has run
\* to its end
UserBasedDone(t) ==
    pc[t] \in {"item_based", "content_based", "merge", "done"}
    /\ result[t].status \in {"", "success", "no_recommendations"}
    /\ "user_based" \notin raised[t]

ItemBasedDone(t) ==
    pc[t] \in {"content_based", "merge", "done"}
    /\ result[t].status \in {"", "success", "no_recommendations"}
    /\ "item_based" \notin raised[t]

ContentBasedDone(t) ==
    pc[t] \in {"merge", "done"}
    /\ result[t].status \in {"", "success", "no_recommendations"}
    /\ "content_based" \notin raised[t]

\* nb lists, each once, the (up to) TopK indices of 1..size other than self
\* whose similarity in the row sims is highest
TopOthers(nb, sims, self, size) ==
    LET others == (1..size) \ {self}
    IN /\ SeqToSet(nb) \subseteq others
       /\ Cardinality(SeqToSet(nb)) = Len(nb)
       /\ Len(nb) = Min(TopK, Cardinality(others))
       /\ \A i \in SeqToSet(nb) : \A j \in others \ SeqToSet(nb) : sims[i] >= sims[j]

\* the sum of rating * similarity over the rating records of movie_id by the
\* users at the indices nb of the matrix
UserScoreOver(nb, sims, movie_id) ==
    SumSeq([k \in 1..Len(ratings_df) |->
               IF /\ ratings_df[k].movie_id = movie_id
                  /\ \E i \in SeqToSet(nb) : user_movie_matrix.index[i] = ratings_df[k].user_id
               THEN ratings_df[k].rating
                    * sims[IndexOf(user_movie_matrix.index, ratings_df[k].user_id)]
               ELSE 0])

\* C15: user-based strategy: the neighbours used are exactly the (up to) 5
\* users other than the requesting user with the highest user similarity to
\* them; the requesting user is never among them and displaces no other
\* user, also when their self-similarity is 0 or tied; the score of each
\* movie the user has not rated is the sum, over those neighbours' ratings
\* of it, of rating * similarity(requesting user, neighbour).
C15_UserBasedNeighboursAndScores ==
    \A t \in Threads :
        UserBasedDone(t) =>
            LET user_id == req[t].user_id
                self == IndexOf(user_movie_matrix.index, user_id)
                sims == user_similarity_matrix.values[self]
                size == Len(user_movie_matrix.index)
            IN /\ \A similar_users \in SimilarUsers(user_id) :
                      TopOthers(similar_users, sims, self, size)
               /\ \E nb \in SimilarUsers(user_id) :
                      /\ Keys(user_scores[t]) =
                             {ratings_df[k].movie_id : k \in
                                 {k \in 1..Len(ratings_df) :
                                     /\ ratings_df[k].movie_id \notin RatedMovies(user_id)
                                     /\ \E i \in SeqToSet(nb) :
                                            user_movie_matrix.index[i] = ratings_df[k].user_id}}
                      /\ \A movie_id \in Keys(user_scores[t]) :
                             DictGet(user_scores[t], movie_id) = UserScoreOver(nb, sims, movie_id)

\* N holds the (up to) TopK indices of 1..size other than self whose
\* similarity in the row sims is highest
TopOthersSet(N, sims, self, size) ==
    LET others == (1..size) \ {self}
    IN /\ N \subseteq others
       /\ Cardinality(N) = Min(TopK, Cardinality(others))
       /\ \A i \in N : \A j \in others \ N : sims[i] >= sims[j]

\* C16: item-based strategy: for each movie the user rated, the neighbours
\* used are exactly its (up to) 5 most item-similar movies other than
\* itself; the source movie is excluded also when its self-similarity is 0
\* or tied; each neighbour the user has not rated accumulates the user's
\* rating of the source * item_similarity(source, neighbour), summed over
\* all source movies.
C16_ItemBasedNeighboursAndScores ==
    \A t \in Threads :
        ItemBasedDone(t) =>
            LET user_id == req[t].user_id
                rows == RowsOf(ratings_df, user_id)
                columns == user_movie_matrix.columns
                size == Len(columns)
                Idx(movie_id) == IndexOf(columns, movie_id)
                Sims(movie_id) == item_similarity_matrix.values[Idx(movie_id)]
            IN /\ \A movie_id \in RatedMovies(user_id) :
                      \A similar_items \in SimilarItems(movie_id) :
                          TopOthers(similar_items, Sims(movie_id), Idx(movie_id), size)
               /\ \E f \in [RatedMovies(user_id) -> SUBSET (1..size)] :
                      /\ \A movie_id \in RatedMovies(user_id) :
                             TopOthersSet(f[movie_id], Sims(movie_id), Idx(movie_id), size)
                      /\ Keys(item_scores[t]) =
                             {columns[j] : j \in UNION {f[m] : m \in RatedMovies(user_id)}}
                                 \ RatedMovies(user_id)
                      /\ \A candidate \in Keys(item_scores[t]) :
                             DictGet(item_scores[t], candidate) =
                                 SumSeq([k \in 1..Len(rows) |->
                                            IF Idx(candidate) \in f[rows[k].movie_id]
                                            THEN rows[k].rating
                                                 * Sims(rows[k].movie_id)[Idx(candidate)]
                                            ELSE 0])

\* the positions, in the user's rating records, of the ratings >= 4
LikedSources(rows) == {i \in 1..Len(rows) : rows[i].rating >= 4}

\* d scores each movie of the lists with the highest rating of the sources
\* whose list holds it; lists[i] is the list get_similar_movies returned
\* for the source rows[i], and <<>> where rows[i] is no source
MaxOfSources(d, rows, lists) ==
    /\ Keys(d) = UNION {SeqToSet(lists[i]) : i \in 1..Len(lists)}
    /\ Cardinality(Keys(d)) = Len(d)
    /\ \A movie_id \in Keys(d) :
           LET sources == {i \in 1..Len(lists) : movie_id \in SeqToSet(lists[i])}
           IN /\ \E i \in sources : DictGet(d, movie_id) = rows[i].rating
              /\ \A i \in sources : DictGet(d, movie_id) >= rows[i].rating

\* for some choice, beyond those of lists, of one list of similar[i] for
\* each liked source rows[i], d is the maximum over the sources
RECURSIVE MaxOfSomeLists(_, _, _, _)
MaxOfSomeLists(d, rows, similar, lists) ==
    IF Len(lists) = Len(rows) THEN MaxOfSources(d, rows, lists)
    ELSE LET i == Len(lists) + 1
         IN IF i \in LikedSources(rows)
            THEN \E l \in similar[i] : MaxOfSomeLists(d, rows, similar, Append(lists, l))
            ELSE MaxOfSomeLists(d, rows, similar, Append(lists, <<>>))

\* C17: the content-based strategy uses only the user's ratings >= 4 as
\* sources (a user whose ratings are all <= 3 gets an empty content
\* contribution), and a candidate's content score is the maximum, not the
\* sum, of the source ratings over the liked movies whose similar list holds
\* it, so it is always 4 or 5.
C17_ContentScoreIsMaxOfLiked ==
    \A t \in Threads :
        ContentBasedDone(t) =>
            LET rows == RowsOf(ratings_df, req[t].user_id)
                d == content_scores[t]
                similar == Tabulate([i \in 1..Len(rows) |->
                                        GetSimilarMovies(nlp_recommender, rows[i].movie_id,
                                                         N_SIMILAR_DEFAULT)], Len(rows))
            IN /\ (\A i \in 1..Len(rows) : rows[i].rating <= 3) => d = <<>>
               /\ \A movie_id \in Keys(d) : DictGet(d, movie_id) \in {4, 5}
               /\ MaxOfSomeLists(d, rows, similar, <<>>)

\* a request has returned whose content scores hold, with score 5, a movie
\* that is in the similar list of a movie the user rated 4 and of one the
\* user rated 5
C17_Witness ==
    /\ PassedChecks(1)
    /\ ContentBasedDone(1)
    /\ LET rows == RowsOf(ratings_df, req[1].user_id)
           d == content_scores[1]
           InAll(i, movie_id) ==
               \A l \in GetSimilarMovies(nlp_recommender, rows[i].movie_id,
                                         N_SIMILAR_DEFAULT) : movie_id \in SeqToSet(l)
       IN \E movie_id \in Keys(d) : \E i, j \in LikedSources(rows) :
              /\ rows[i].rating = 4
              /\ rows[j].rating = 5
              /\ InAll(i, movie_id)
              /\ InAll(j, movie_id)
              /\ DictGet(d, movie_id) = 5

\* C18: every per-strategy score and every combined score of a returned
\* movie is non-negative, for every rating snapshot, also one where the
\* most similar other user or item has negative cosine similarity to the
\* requester's row or column.
C18_ScoresNonNegative ==
    \A t \in Threads :
        PassedChecks(t) =>
            \A i \in 1..Len(result[t].recommendations) :
                LET movie_id == result[t].recommendations[i]
                IN /\ ScoreIn(user_based_recs[t], movie_id) >= 0
                   /\ ScoreIn(item_based_recs[t], movie_id) >= 0
                   /\ ScoreIn(content_based_recs[t], movie_id) >= 0
                   /\ ScoreIn(combined_recs[t], movie_id) >= 0

(***************************************************************************)
(* Properties of the similarity matrices.                                  *)
(***************************************************************************)
\* the vector has zero norm
ZeroVector(v) == \A j \in 1..Len(v) : v[j] = 0

\* sim is the n x n similarity matrix of the n vectors X: square, symmetric,
\* 1 on the diagonal for a non-zero vector, 0 wherever a zero vector is
\* involved
SimilarityMatrixOf(sim, X, n) ==
    /\ Len(X) = n
    /\ Len(sim) = n
    /\ \A i \in 1..n : Len(sim[i]) = n
    /\ \A i, k \in 1..n : sim[i][k] = sim[k][i]
    /\ \A i \in 1..n : ~ZeroVector(X[i]) => sim[i][i] = Scale
    /\ \A i, k \in 1..n : (ZeroVector(X[i]) \/ ZeroVector(X[k])) => sim[i][k] = 0

\* the build succeeded: _prepare_data left both similarity matrices
BuildSucceeded ==
    /\ phase = "ready"
    /\ ~user_movie_matrix.none
    /\ ~user_similarity_matrix.none
    /\ ~item_similarity_matrix.none

\* C20: after a successful build the user-similarity and the item-
\* similarity matrix are square and symmetric, every diagonal entry whose
\* row (resp. column) of the normalized matrix is non-zero equals 1, and
\* every entry involving a zero-norm vector, its own diagonal entry
\* included, equals 0.
C20_SimilarityMatricesWellFormed ==
    BuildSucceeded =>
        LET X == normalized_matrix.values
            users == Len(user_movie_matrix.index)
            movies == Len(user_movie_matrix.columns)
        IN /\ SimilarityMatrixOf(user_similarity_matrix.values, X, users)
           /\ SimilarityMatrixOf(item_similarity_matrix.values,
                                 Transpose(X, movies), movies)

\* a build has succeeded with two users of non-zero rows whose similarity
\* is not 0, a movie whose column is zero and one whose column is not
C20_Witness ==
    /\ BuildSucceeded
    /\ LET X == normalized_matrix.values
           movies == Len(user_movie_matrix.columns)
           columns == Transpose(X, movies)
       IN /\ Len(X) = 2
          /\ ~ZeroVector(X[1])
          /\ ~ZeroVector(X[2])
          /\ user_similarity_matrix.values[1][2] # 0
          /\ \E j, k \in 1..movies :
                 /\ ZeroVector(columns[j])
                 /\ ~ZeroVector(columns[k])
                 /\ item_similarity_matrix.values[j][j] = 0
                 /\ item_similarity_matrix.values[k][k] = Scale

(***************************************************************************)
(* Frame of get_recommendations.                                           *)
(***************************************************************************)
\* the request thread t takes the step
Acts(t) == pc'[t] # pc[t]

\* a request for user_id passes the three checks: the engine is
\* initialized, the user has ratings, and at least three of them
PassesChecks(user_id) ==
    /\ Initialized
    /\ RatingCount(user_id) >= 3

\* C21: a get_recommendations request that ends in uninitialized,
\* user_not_found or insufficient_ratings leaves the whole engine unchanged,
\* the content model included: the content model is re-fit only after all
\* eligibility checks pass and only when a non-empty metadata snapshot is
\* supplied, and no request changes the rating matrix, the similarity
\* matrices or the rating snapshot.
C21_IneligibleRequestChangesNothing ==
    [][phase = "ready" =>
          /\ UNCHANGED <<ratings_data, ratings_df, user_movie_matrix, normalized_matrix,
                         user_similarity_matrix, item_similarity_matrix>>
          /\ \A t \in Threads :
                 (Acts(t) /\ ~PassesChecks(req'[t].user_id)) => UNCHANGED nlp_recommender
          /\ \A t \in Threads :
                 (Acts(t) /\ pc'[t] = "done"
                     /\ result'[t].status \in {"uninitialized", "user_not_found",
                                               "insufficient_ratings"}) =>
                     UNCHANGED nlp_recommender
          /\ nlp_recommender' # nlp_recommender =>
                 \E t \in Threads :
                     /\ Acts(t)
                     /\ PassesChecks(req[t].user_id)
                     /\ req[t].movie_data # <<>>]_vars

\* a request has ended in insufficient_ratings on an engine whose content
\* model the other request had fitted
C21_Witness ==
    /\ Returned(2)
    /\ result[2].status = "insufficient_ratings"
    /\ Returned(1)
    /\ result[1].status = "success"
    /\ req[1].movie_data # <<>>
    /\ ~nlp_recommender.movie_tfidf_matrix.none

(***************************************************************************)
(* Properties of the popular section.                                      *)
(***************************************************************************)
\* the get_filtered_popular_movies call has returned
PopularDone == popular_pc = "done"

\* the pages asked for so far are 1, 2, ... in this order
PagesInOrder == \A i \in 1..Len(fetched_pages) : fetched_pages[i].page = i

\* the call stopped for one of the three reasons
StoppedWhenDue ==
    LET fetched == Len(fetched_pages)
    IN \/ Len(filtered_movies) >= 8
       \/ fetched >= 1 /\ ~fetched_pages[fetched].has_results
       \/ fetched = 50

\* a page is asked for only while none of the three reasons holds
FetchesWhileNotDue ==
    Len(fetched_pages') = Len(fetched_pages) + 1 =>
        /\ Len(filtered_movies) < 8
        /\ Len(fetched_pages) < 50
        /\ \A i \in 1..Len(fetched_pages) : fetched_pages[i].has_results

\* at most 8 movies are returned, none of them excluded
ReturnsUnratedUpTo8 ==
    /\ Len(popular_returned) <= 8
    /\ \A k \in 1..Len(popular_returned) :
           /\ popular_returned[k].id \notin exclude_movies
           /\ popular_returned[k].id \notin rated_popular_movies

\* C22: get_filtered_popular_movies always terminates: it fetches pages 1,
\* 2, ... in increasing order, stops as soon as 8 matching movies are
\* collected, a page response lacks 'results', or 50 pages have been
\* fetched, returns at most 8 movies, and never returns a movie whose id is
\* in exclude_movies (the movies already rated from the popular section in
\* this session).
C22_PopularTerminatesBounded ==
    /\ [](PagesInOrder /\ (PopularDone => (StoppedWhenDue /\ ReturnsUnratedUpTo8)))
    /\ [][FetchesWhileNotDue]_vars
    /\ (popular_pc = "loop" ~> PopularDone)

\* a call has returned 8 movies of more that it collected, with a movie
\* excluded that a page held
C22_Witness ==
    /\ PopularDone
    /\ Len(popular_returned) = 8
    /\ Len(filtered_movies) > 8
    /\ exclude_movies # {}
    /\ Len(fetched_pages) >= 3

============================================================================
